---- MODULE Spec2Model ----
(***************************************************************************)
(* FaceLink: the recognition announcement gate behind POST /api/recognize, *)
(* the recognition client (recognizeFace, performRecognition) and the      *)
(* HomePage recognition handlers.                                          *)
(*                                                                         *)
(* Time is counted in minutes.  A person is identified by its id.          *)
(***************************************************************************)
EXTENDS Integers, Sequences, FiniteSets, TLC

\* ---------------------------------------------------------------- bounds
\* Last minute of the clock.
MaxTime == 6
\* Number of /recognize evaluations kept in the history.
MaxCalls == 4
\* Number of attempts the poller starts.
MaxAttempts == 2
\* Number of recognitions HomePage starts.
MaxRecognitions == 3
\* Number of TimelineEvent rows in the store.
MaxDbEvents == 3
\* Number of Settings and Caregiver rows ever created.
MaxRows == 4
\* Number of Task rows ever created.
MaxTasks == 3
\* Highest Person id the backend of the people list gives out.
MaxPersonId == 2
\* Number of saves started in the people list.
MaxSaves == 2
\* Number of deletes and photo uploads started in the people list.
MaxRemoves == 2
\* Number of clicks on the Help button.
MaxHelpClicks == 3
\* Number of calls of the functions of the api client.
MaxApiCalls == 2
\* Number of requests to the upload-photo endpoint.
MaxUploads == 3
\* Number of times the PhotoCaptureDialog is opened.
MaxMounts == 3
\* Number of photos captured while the dialog is open.
MaxShots == 2
\* Number of loads the weekly CalendarView starts.
MaxWeekLoads == 3
\* Number of loads the Timeline starts.
MaxTimelineLoads == 2
\* Number of tasks and number of events of a day.
MaxDayItems == 2
\* Number of digits of the number in a spoken phrase.
MaxHourDigits == 2
\* Number of pieces of a spoken text.
MaxPieces == 2

\* ---------------------------------------------------------------- values
\* Ids of the known people a match can name.
PersonIds == {"A", "B"}
\* "no person" / "no timestamp" (null).
None == "none"
NoTime == -1
\* The configured cooldown of the gate, in minutes.
Cooldown == 5

\* The polling sessions (one per device).
SessionIds == {"s1", "s2"}
\* The gate of a session that has announced nobody.
FreshGate == [lastAnnouncedPersonId |-> None, lastAnnouncedAt |-> NoTime]
\* No operation on a session's gate yet.
NoOp == [session |-> None, kind |-> "none"]
NoList == [kind |-> "none"]
\* stream: null
NoStream == 0
\* captured: null
NoPhoto == 0
Names == {"Ann", "Bea"}
\* The id of the n-th Person row of the backend.
PersonId(n) == <<"1", "2", "3", "4">>[n]
FirstPerson == [id |-> PersonId(1), name |-> "Ann"]
\* The saves that wait for their call at one time.
Slots == {"first", "second"}
Free == [op |-> "none"]
Pending == [kind |-> "pending"]

\* The attempt channel when no attempt is outstanding, and when the request
\* is on its way to the matcher.
Idle == [kind |-> "idle"]
Request == [kind |-> "request"]

\* MatchResult = NoMatch | Matched(personId)
NoMatch == [matched |-> FALSE, personId |-> None]
Matched(id) == [matched |-> TRUE, personId |-> id]
MatchResults == {NoMatch} \cup {Matched(id) : id \in PersonIds}

VARIABLES
    now,                    \* the clock
    lastAnnouncedPersonId,  \* gate state
    lastAnnouncedAt,        \* gate state
    events,                 \* TimelineEvent rows recorded by /recognize
    log,                    \* history of the evaluations of the gate
    isVisitorMode,          \* visitor mode (the poller runs while it is on)
    inFlight,               \* a recognition attempt of the poller is outstanding
    channel,                \* the outstanding attempt: its request or its outcome
    currentPerson,          \* the person shown on the "who is this" card
    spoken,                 \* the people announced by text-to-speech, in order
    uncaught,               \* an error escaped to the user
    handled,                \* the outcome performRecognition handled last
    attempts,               \* attempts the poller has started
    isRecognizing,          \* HomePage (button): a recognition is running
    timers,                 \* HomePage: pending setTimeout callbacks
    timelineEvents,         \* HomePage: the timeline list, newest first
    completed,              \* HomePage: recognitions whose callback has run
    clickedWhileBusy,       \* HomePage (button): a click met the disabled button
    gates,                  \* the gate of every polling session
    fresh,                  \* per session: no match evaluated since it (re)started
    everAnnounced,          \* per session: its last announcement, over restarts
    lastOp,                 \* the last operation on a session's gate
    dbPeople,               \* store: the ids of the Person rows
    dbEvents,               \* store: the TimelineEvent rows, in order of creation
    lastDelete,             \* store: the last Person deleted and its events then
    dbSettings,             \* settings: the Settings rows
    dbCaregivers,           \* settings: the Caregiver rows
    nextRowId,              \* settings: the next row id (uuid)
    rejected,               \* settings: an insert was rejected by the store
    dbTasks,                \* tasks: the Task rows
    nextTaskId,             \* tasks: the next row id (uuid)
    taskList,               \* tasks: the response of the last GET /tasks?date
    plServer,               \* people list: the Person rows of the backend
    plNextId,               \* people list: the next Person id of the backend
    people,                 \* people list: the local list of PeopleList
    editingId,              \* people list: the id of the person being edited
    isAdding,               \* people list: the form for a new person is open
    editForm,               \* people list: the name typed into the form
    plCalls,                \* people list: the saves waiting for their call
    plSaves,                \* people list: the number of saves started
    plDone,                 \* people list: the last save that returned
    uploadingPhotoFor,      \* people list: the person whose photo is uploaded
    plRemoves,              \* people list: the number of deletes and uploads
    plDeleted,              \* people list: the ids handleDelete has removed
    showHelp,               \* help: the dialog of HelpButton is open
    helpIsLoading,          \* help: isLoading of HelpButton
    reassuranceMessage,     \* help: the message HelpButton shows
    caregivers,             \* help: the caregivers HelpButton shows
    helpCalls,              \* help: the calls of triggerHelp not yet returned
    helpClicks,             \* help: the number of clicks on the button
    helpEvents,             \* help: the 'confused' events of the backend
    apiCall,                \* api client: the last call and what it returned
    apiCalls,               \* api client: the number of calls
    uploadFiles,            \* upload: the files of UPLOAD_FOLDER
    uploadPerson,           \* upload: photo_url and face_encoding of the Person
    uploads,                \* upload: the number of requests
    lastUpload,             \* upload: the last request and its response
    dlgOpen,                \* dialog: PhotoCaptureDialog is mounted and open
    dlgMounts,              \* dialog: the number of times it was mounted
    stream,                 \* dialog: the state stream (0: null)
    effectStream,           \* dialog: stream as the effect's cleanup sees it
    captured,               \* dialog: the captured photo (0: null)
    shots,                  \* dialog: the photos captured since the mount
    onCaptureCalls,         \* dialog: the number of calls of onCapture
    cameraCalls,            \* dialog: the mounts whose getUserMedia is pending
    cameraRunning,          \* dialog: the streams whose tracks are running
    wkPhase,                \* week: the CalendarView is mounted or unmounted
    wkInterval,             \* week: the 10 s interval is set
    weekDays,               \* week: the load whose days are displayed (0: [])
    wkLoading,              \* week: isLoading
    wkLoads,                \* week: the calls of loadWeekData in flight
    wkStarted,              \* week: the number of loads started
    wkPlanner,              \* week: a VoicePlanner run has not yet called onDone
    tlPhase,                \* timeline: the Timeline is mounted or unmounted
    tlInterval,             \* timeline: the 30 s interval is set
    tlEvents,               \* timeline: the load whose events are displayed
    tlLoading,              \* timeline: isLoading
    tlLoads,                \* timeline: the calls of loadTimeline in flight
    tlStarted,              \* timeline: the number of loads started
    dayPhase,               \* day: the day is loaded, its details are rendered
    dayData,                \* day: the DayData of the expanded day
    groupedItems,           \* day: the items renderDayDetails displays
    parsePhase,             \* parse: a phrase is given, it has been parsed
    phrase,                 \* parse: the text given to parseTimeFromText
    timeShown,              \* parse: the "HH:MM" the text was formatted from
    parsedTime,             \* parse: the result (the empty string: null)
    transcript,             \* planner: the transcribed text
    vpRun,                  \* planner: the call of parseAndCreateTasks
    vpSent,                 \* planner: the calls of createTask and their results
    vpStatus,               \* planner: the counts of the status line
    onDoneCalls             \* planner: the number of calls of onDone

gateVars == <<now, lastAnnouncedPersonId, lastAnnouncedAt, events, log>>
sessionVars ==
    <<isVisitorMode, inFlight, channel, currentPerson, spoken, uncaught, handled,
      attempts>>
pageVars == <<isRecognizing, timers, timelineEvents, completed, clickedWhileBusy>>

sessionsVars == <<gates, fresh, everAnnounced, lastOp>>

\* The state of the recognition flow, and the state of everything else.
coreVars == <<gateVars, sessionVars, pageVars>>
storeVars == <<dbPeople, dbEvents, lastDelete>>
settingsVars == <<dbSettings, dbCaregivers, nextRowId, rejected>>
taskVars == <<dbTasks, nextTaskId, taskList>>
plMore == <<uploadingPhotoFor, plRemoves, plDeleted>>
peopleVars == <<plServer, plNextId, people, editingId, isAdding, editForm,
                plCalls, plSaves, plDone, plMore>>
helpVars == <<showHelp, helpIsLoading, reassuranceMessage, caregivers,
              helpCalls, helpClicks, helpEvents>>
apiVars == <<apiCall, apiCalls>>
uploadVars == <<uploadFiles, uploadPerson, uploads, lastUpload>>
earlierVars == <<coreVars, sessionsVars, storeVars, settingsVars, taskVars,
                 peopleVars, helpVars, apiVars, uploadVars>>
dialogVars == <<dlgOpen, dlgMounts, stream, effectStream, captured, shots,
                onCaptureCalls, cameraCalls, cameraRunning>>
weekVars == <<wkPhase, wkInterval, weekDays, wkLoading, wkLoads, wkStarted,
              wkPlanner>>
timelineVars == <<tlPhase, tlInterval, tlEvents, tlLoading, tlLoads,
                  tlStarted>>
dayVars == <<dayPhase, dayData, groupedItems>>
parseVars == <<parsePhase, phrase, timeShown, parsedTime>>
plannerVars == <<transcript, vpRun, vpSent, vpStatus, onDoneCalls>>
viewVars == <<dialogVars, weekVars, timelineVars, dayVars, parseVars,
              plannerVars>>
laterVars == <<sessionsVars, storeVars, settingsVars, taskVars, peopleVars,
               helpVars, apiVars, uploadVars, viewVars>>

vars == <<coreVars, laterVars>>

\* ------------------------------------------------------ Announcement Gate
Gate == [lastAnnouncedPersonId |-> lastAnnouncedPersonId,
         lastAnnouncedAt |-> lastAnnouncedAt]

\* ShouldAnnounce with the cooldown one minute short.
ShouldAnnounce_ShortCooldown(gate, id, t) ==
    \/ id # gate.lastAnnouncedPersonId
    \/ gate.lastAnnouncedAt = NoTime
    \/ t - gate.lastAnnouncedAt >= Cooldown - 1

\* ShouldAnnounce with one cooldown for everybody.
ShouldAnnounce_CooldownOnly(gate, id, t) ==
    \/ gate.lastAnnouncedAt = NoTime
    \/ t - gate.lastAnnouncedAt >= Cooldown

\* ShouldAnnounce with the boundary excluded.
ShouldAnnounce_StrictlyAfter(gate, id, t) ==
    \/ id # gate.lastAnnouncedPersonId
    \/ gate.lastAnnouncedAt = NoTime
    \/ t - gate.lastAnnouncedAt > Cooldown

\* The announce decision for a match of person id at time t.
ShouldAnnounce(gate, id, t) ==
    \/ id # gate.lastAnnouncedPersonId
    \/ gate.lastAnnouncedAt = NoTime
    \/ t - gate.lastAnnouncedAt >= Cooldown

\* evaluate that records the person of the first announcement only.
evaluate_KeepsFirstPerson(gate, matchResult, t) ==
    IF ~matchResult.matched
    THEN [person |-> None, shouldAnnounce |-> FALSE, gate |-> gate]
    ELSE IF ShouldAnnounce(gate, matchResult.personId, t)
         THEN [person |-> matchResult.personId, shouldAnnounce |-> TRUE,
               gate |-> [lastAnnouncedPersonId |->
                             IF gate.lastAnnouncedPersonId = None
                             THEN matchResult.personId
                             ELSE gate.lastAnnouncedPersonId,
                         lastAnnouncedAt |-> t]]
         ELSE [person |-> matchResult.personId, shouldAnnounce |-> FALSE,
               gate |-> gate]

\* evaluate that restarts the cooldown at every sighting.
evaluate_SlidingWindow(gate, matchResult, t) ==
    IF ~matchResult.matched
    THEN [person |-> None, shouldAnnounce |-> FALSE, gate |-> gate]
    ELSE [person |-> matchResult.personId,
          shouldAnnounce |-> ShouldAnnounce(gate, matchResult.personId, t),
          gate |-> [lastAnnouncedPersonId |-> matchResult.personId,
                    lastAnnouncedAt |-> t]]

\* evaluate(matchResult, now) -> { person, shouldAnnounce }, with the gate
\* state it leaves.
evaluate(gate, matchResult, t) ==
    IF ~matchResult.matched
    THEN [person |-> None, shouldAnnounce |-> FALSE, gate |-> gate]
    ELSE IF ShouldAnnounce(gate, matchResult.personId, t)
         THEN [person |-> matchResult.personId, shouldAnnounce |-> TRUE,
               gate |-> [lastAnnouncedPersonId |-> matchResult.personId,
                         lastAnnouncedAt |-> t]]
         ELSE [person |-> matchResult.personId, shouldAnnounce |-> FALSE,
               gate |-> gate]

\* The TimelineEvent the endpoint creates for one recognition.
RecognitionEvent(personId, t) ==
    [eventType |-> "recognition", personId |-> personId, timestamp |-> t]

\* data of the response when a match was found.
MatchData(personId, should_announce, timeline_event) ==
    [recognized |-> TRUE, person |-> personId,
     timeline_event |-> timeline_event, should_announce |-> should_announce]

\* NoMatchData that asks for an announcement.
NoMatchData_Announce(timeline_event) ==
    [recognized |-> FALSE, person |-> None,
     timeline_event |-> timeline_event, should_announce |-> TRUE]

\* data of the response when no match was found.
NoMatchData(timeline_event) ==
    [recognized |-> FALSE, person |-> None,
     timeline_event |-> timeline_event, should_announce |-> FALSE]

\* POST /recognize: one evaluation of the gate on the matcher's result; the
\* response data and the gate state it leaves.
recognize(gate, matchResult, t) ==
    LET r == evaluate(gate, matchResult, t)
        ev == RecognitionEvent(r.person, t)
    IN  [data |-> IF r.person # None
                  THEN MatchData(r.person, r.shouldAnnounce, ev)
                  ELSE NoMatchData(ev),
         gate |-> r.gate,
         event |-> ev]

\* ------------------------------------------------------------ gate actions
Init ==
    /\ now = 0
    /\ lastAnnouncedPersonId = None
    /\ lastAnnouncedAt = NoTime
    /\ events = <<>>
    /\ log = <<>>
    /\ isVisitorMode = FALSE
    /\ inFlight = FALSE
    /\ channel = Idle
    /\ currentPerson = None
    /\ spoken = <<>>
    /\ uncaught = FALSE
    /\ handled = Idle
    /\ attempts = 0
    /\ isRecognizing = FALSE
    /\ timers = 0
    /\ timelineEvents = <<>>
    /\ completed = 0
    /\ clickedWhileBusy = FALSE
    /\ gates = [s \in SessionIds |-> FreshGate]
    /\ fresh = [s \in SessionIds |-> TRUE]
    /\ everAnnounced = [s \in SessionIds |-> FreshGate]
    /\ lastOp = NoOp
    /\ dbPeople = {}
    /\ dbEvents = <<>>
    /\ lastDelete = [personId |-> None, referencing |-> {}]
    /\ dbSettings = {}
    /\ dbCaregivers = {}
    /\ nextRowId = 1
    /\ rejected = FALSE
    /\ dbTasks = {}
    /\ nextTaskId = 1
    /\ taskList = NoList
    /\ plServer = {FirstPerson}
    /\ plNextId = 2
    /\ people = <<FirstPerson>>
    /\ editingId = None
    /\ isAdding = FALSE
    /\ editForm = ""
    /\ plCalls = [k \in Slots |-> Free]
    /\ plSaves = 0
    /\ plDone = Free
    /\ uploadingPhotoFor = None
    /\ plRemoves = 0
    /\ plDeleted = {}
    /\ showHelp = FALSE
    /\ helpIsLoading = FALSE
    /\ reassuranceMessage = "You are safe at home. Everything is okay."
    /\ caregivers = <<>>
    /\ helpCalls = [k \in Slots |-> Free]
    /\ helpClicks = 0
    /\ helpEvents = <<>>
    /\ apiCall = Free
    /\ apiCalls = 0
    /\ uploadFiles = {}
    /\ uploadPerson = [photo_url |-> <<>>, face_encoding |-> None]
    /\ uploads = 0
    /\ lastUpload = Free
    /\ dlgOpen = FALSE
    /\ dlgMounts = 0
    /\ stream = NoStream
    /\ effectStream = NoStream
    /\ captured = NoPhoto
    /\ shots = 0
    /\ onCaptureCalls = 0
    /\ cameraCalls = {}
    /\ cameraRunning = {}
    /\ wkPhase = "initial"
    /\ wkInterval = FALSE
    /\ weekDays = 0
    /\ wkLoading = TRUE
    /\ wkLoads = [k \in Slots |-> Free]
    /\ wkStarted = 0
    /\ wkPlanner = FALSE
    /\ tlPhase = "initial"
    /\ tlInterval = FALSE
    /\ tlEvents = 0
    /\ tlLoading = TRUE
    /\ tlLoads = {}
    /\ tlStarted = 0
    /\ dayPhase = "none"
    /\ dayData = [tasks |-> <<>>, events |-> <<>>]
    /\ groupedItems = <<>>
    /\ parsePhase = "none"
    /\ phrase = <<>>
    /\ timeShown = <<>>
    /\ parsedTime = <<>>
    /\ vpRun = [phase |-> "idle", parts |-> <<>>, next |-> 1,
                created |-> <<>>, skipped |-> <<>>]
    /\ transcript = <<>>
    /\ vpSent = <<>>
    /\ vpStatus = [saved |-> 0, skipped |-> 0]
    /\ onDoneCalls = 0

\* A minute passes.
Tick ==
    /\ now < MaxTime
    /\ now' = now + 1
    /\ UNCHANGED <<lastAnnouncedPersonId, lastAnnouncedAt, events, log>>
    /\ UNCHANGED <<sessionVars, pageVars, laterVars>>

\* One /recognize request whose matcher result is m.
Recognize(m) ==
    /\ Len(log) < MaxCalls
    /\ LET r == recognize(Gate, m, now)
       IN  /\ lastAnnouncedPersonId' = r.gate.lastAnnouncedPersonId
           /\ lastAnnouncedAt' = r.gate.lastAnnouncedAt
           /\ events' = Append(events, r.event)
           /\ log' = Append(log, [match |-> m, now |-> now, data |-> r.data,
                                  before |-> Gate, after |-> r.gate])
    /\ UNCHANGED now

\* The endpoint called on its own, one request after the other.
RecognizeRequest(m) ==
    /\ Recognize(m)
    /\ UNCHANGED <<sessionVars, pageVars, laterVars>>

GateNext ==
    \/ Tick
    \/ \E m \in MatchResults : RecognizeRequest(m)

GateSpec == Init /\ [][GateNext]_vars

\* ------------------------------------------------- recognition session
\* What fetch and res.json() hand to recognizeFace: the parsed envelope
\* { success, data }, or a throw (the request failed or was abandoned).
Body(success, data) == [kind |-> "body", success |-> success, data |-> data]
Thrown(cause) == [kind |-> "throw", cause |-> cause]
\* null
Null == [null |-> TRUE]

\* recognizeFace without its catch.
recognizeFace_NoCatch(outcome) ==
    IF outcome.kind = "throw"
    THEN [threw |-> TRUE, value |-> Null]
    ELSE [threw |-> FALSE,
          value |-> IF outcome.success THEN outcome.data ELSE Null]

\* recognizeFace: data of a successful envelope, else null; threw tells
\* whether an exception left the function.
recognizeFace(outcome) ==
    IF outcome.kind = "throw"
    THEN [threw |-> FALSE, value |-> Null]
    ELSE [threw |-> FALSE,
          value |-> IF outcome.success THEN outcome.data ELSE Null]

\* Displayed that shows the person only with the announcement.
Displayed_WhenAnnounced(result, current) ==
    IF result # Null /\ result.person # None /\ result.should_announce
    THEN result.person
    ELSE current

\* performRecognition: if (result && result.person) setCurrentPerson(result.person)
Displayed(result, current) ==
    IF result # Null /\ result.person # None THEN result.person ELSE current

\* performRecognition: ... if (result.should_announce) announcePersonWithTTS(result.person)
Announces(result) ==
    /\ result # Null
    /\ result.person # None
    /\ result.should_announce

\* The Toggle of the Live View card.
setIsVisitorMode ==
    /\ isVisitorMode' = ~isVisitorMode
    /\ UNCHANGED <<inFlight, channel, currentPerson, spoken, uncaught, handled,
                 attempts>>
    /\ UNCHANGED <<gateVars, pageVars, laterVars>>

\* A tick of the poller: it starts an attempt unless visitor mode is off or
\* an attempt is still outstanding (that tick is skipped).
pollTick ==
    /\ isVisitorMode
    /\ ~inFlight
    /\ attempts < MaxAttempts
    /\ inFlight' = TRUE
    /\ channel' = Request
    /\ attempts' = attempts + 1
    /\ UNCHANGED <<isVisitorMode, currentPerson, spoken, uncaught, handled>>
    /\ UNCHANGED <<gateVars, pageVars, laterVars>>

\* The matcher answers m: the endpoint evaluates the gate and responds.
matcherAnswers(m) ==
    /\ channel = Request
    /\ Recognize(m)
    /\ channel' = Body(TRUE, recognize(Gate, m, now).data)
    /\ UNCHANGED <<isVisitorMode, inFlight, currentPerson, spoken, uncaught, handled,
                 attempts>>
    /\ UNCHANGED <<pageVars, laterVars>>

\* The matcher raises an error: the endpoint answers success = false and the
\* gate is not evaluated.
matcherFails ==
    /\ channel = Request
    /\ channel' = Body(FALSE, Null)
    /\ UNCHANGED <<isVisitorMode, inFlight, currentPerson, spoken, uncaught, handled,
                 attempts>>
    /\ UNCHANGED <<gateVars, pageVars, laterVars>>

\* The matcher cannot be reached: fetch rejects.
matcherUnavailable ==
    /\ channel = Request
    /\ channel' = Thrown("unavailable")
    /\ UNCHANGED <<isVisitorMode, inFlight, currentPerson, spoken, uncaught, handled,
                 attempts>>
    /\ UNCHANGED <<gateVars, pageVars, laterVars>>

\* The matcher does not answer in time: the caller's timeout abandons the
\* request.
matcherTimesOut ==
    /\ channel = Request
    /\ channel' = Thrown("timeout")
    /\ UNCHANGED <<isVisitorMode, inFlight, currentPerson, spoken, uncaught, handled,
                 attempts>>
    /\ UNCHANGED <<gateVars, pageVars, laterVars>>

\* The response does not arrive or cannot be parsed: fetch or res.json()
\* throws after the endpoint has handled the request.
responseLost ==
    /\ channel.kind = "body"
    /\ channel' = Thrown("response")
    /\ UNCHANGED <<isVisitorMode, inFlight, currentPerson, spoken, uncaught, handled,
                 attempts>>
    /\ UNCHANGED <<gateVars, pageVars, laterVars>>

\* performRecognition, from the return of recognizeFace on.
performRecognition ==
    /\ channel.kind \in {"body", "throw"}
    /\ LET r == recognizeFace(channel)
       IN  /\ uncaught' = (uncaught \/ r.threw)
           /\ currentPerson' =
                IF r.threw THEN currentPerson ELSE Displayed(r.value, currentPerson)
           /\ spoken' =
                IF ~r.threw /\ Announces(r.value)
                THEN Append(spoken, r.value.person)
                ELSE spoken
    /\ handled' = channel
    /\ channel' = Idle
    /\ inFlight' = FALSE
    /\ UNCHANGED <<isVisitorMode, attempts>>
    /\ UNCHANGED <<gateVars, pageVars, laterVars>>

SessionNext ==
    \/ Tick
    \/ setIsVisitorMode
    \/ pollTick
    \/ \E m \in MatchResults : matcherAnswers(m)
    \/ matcherFails
    \/ matcherUnavailable
    \/ matcherTimesOut
    \/ responseLost
    \/ performRecognition

SessionSpec == Init /\ [][SessionNext]_vars

\* ------------------------------------------------------------ HomePage
\* const initialPeople: the ids of the four people of the demo.
initialPeople == {"1", "2", "3", "4"}

\* const newEvent: TimelineEvent = { id: Date.now().toString(), personName,
\* relationship, timestamp: new Date() }; the person stands for its name and
\* relationship.
newEvent(randomPerson, t) ==
    [id |-> t, personName |-> randomPerson, timestamp |-> t]

\* setTimelineEvents that drops an event whose id is in the list already.
setTimelineEvents_DedupById(event, prev) ==
    IF \E i \in 1..Len(prev) : prev[i].id = event.id
    THEN prev
    ELSE <<event>> \o prev

\* setTimelineEvents that puts the new event last.
setTimelineEvents_Last(event, prev) == prev \o <<event>>

\* setTimelineEvents((prev) => [newEvent, ...prev])
setTimelineEvents(event, prev) == <<event>> \o prev

\* Recognitions started so far.
Started == completed + timers

\* HomePage with the visitor mode toggle: recognizePerson, up to setTimeout.
recognizePersonVisitor ==
    /\ Started < MaxRecognitions
    /\ isVisitorMode' = TRUE
    /\ timers' = timers + 1
    /\ UNCHANGED <<isRecognizing, timelineEvents, completed, clickedWhileBusy>>
    /\ UNCHANGED <<inFlight, channel, currentPerson, spoken, uncaught, handled,
                   attempts>>
    /\ UNCHANGED <<gateVars, laterVars>>

\* HomePage with the visitor mode toggle: the callback of setTimeout.
recognizeTimeoutVisitor ==
    /\ timers > 0
    /\ \E randomPerson \in initialPeople :
        /\ currentPerson' = randomPerson
        /\ timelineEvents' =
             setTimelineEvents(newEvent(randomPerson, now), timelineEvents)
    /\ timers' = timers - 1
    /\ completed' = completed + 1
    /\ UNCHANGED <<isRecognizing, clickedWhileBusy>>
    /\ UNCHANGED <<isVisitorMode, inFlight, channel, spoken, uncaught, handled,
                   attempts>>
    /\ UNCHANGED <<gateVars, laterVars>>

VisitorPageNext ==
    \/ Tick
    \/ setIsVisitorMode
    \/ recognizePersonVisitor
    \/ recognizeTimeoutVisitor

VisitorPageSpec == Init /\ [][VisitorPageNext]_vars

\* The button never disabled.
ButtonDisabled_Never == FALSE

\* HomePage with the Recognize Person button: disabled={isRecognizing}
ButtonDisabled == isRecognizing

\* HomePage with the Recognize Person button: recognizePerson, up to
\* setTimeout.
recognizePersonButton ==
    /\ isRecognizing' = TRUE
    /\ timers' = timers + 1
    /\ UNCHANGED <<timelineEvents, completed, clickedWhileBusy>>

\* A click on the Recognize Person button: a disabled button runs no handler.
clickRecognize ==
    /\ Started < MaxRecognitions
    /\ IF ButtonDisabled
       THEN /\ clickedWhileBusy' = TRUE
            /\ UNCHANGED <<isRecognizing, timers, timelineEvents, completed>>
       ELSE recognizePersonButton
    /\ UNCHANGED <<sessionVars, gateVars, laterVars>>

\* HomePage with the Recognize Person button: the callback of setTimeout.
recognizeTimeoutButton ==
    /\ timers > 0
    /\ \E randomPerson \in initialPeople :
        /\ currentPerson' = randomPerson
        /\ timelineEvents' =
             setTimelineEvents(newEvent(randomPerson, now), timelineEvents)
    /\ isRecognizing' = FALSE
    /\ timers' = timers - 1
    /\ completed' = completed + 1
    /\ UNCHANGED clickedWhileBusy
    /\ UNCHANGED <<isVisitorMode, inFlight, channel, spoken, uncaught, handled,
                   attempts>>
    /\ UNCHANGED <<gateVars, laterVars>>

ButtonPageNext ==
    \/ Tick
    \/ clickRecognize
    \/ recognizeTimeoutButton

ButtonPageSpec == Init /\ [][ButtonPageNext]_vars

\* --------------------------------------------- gates of several sessions
\* storeGate that keeps one gate for all sessions.
storeGate_Shared(gs, session, gate) == [t \in DOMAIN gs |-> gate]

\* The gate is process-local per session: an evaluation stores the gate of
\* its own session.
storeGate(gs, session, gate) == [gs EXCEPT ![session] = gate]

\* One evaluation of the gate of a session.
evaluateIn(session, m) ==
    LET r == evaluate(gates[session], m, now)
    IN  /\ gates' = storeGate(gates, session, r.gate)
        /\ fresh' = [fresh EXCEPT ![session] = @ /\ ~m.matched]
        /\ everAnnounced' =
             [everAnnounced EXCEPT ![session] = IF r.shouldAnnounce THEN r.gate ELSE @]
        /\ lastOp' = [session |-> session, kind |-> "evaluate", match |-> m,
                      now |-> now, shouldAnnounce |-> r.shouldAnnounce,
                      first |-> fresh[session],
                      earlier |-> everAnnounced[session]]
        /\ UNCHANGED <<coreVars, storeVars, settingsVars, taskVars, peopleVars,
                   helpVars, apiVars, uploadVars, viewVars>>

\* The polling session is restarted: its gate is reset.
restartSession(session) ==
    /\ gates' = storeGate(gates, session, FreshGate)
    /\ fresh' = [fresh EXCEPT ![session] = TRUE]
    /\ lastOp' = [session |-> session, kind |-> "restart"]
    /\ UNCHANGED everAnnounced
    /\ UNCHANGED <<coreVars, storeVars, settingsVars, taskVars, peopleVars,
                   helpVars, apiVars, uploadVars, viewVars>>

SessionsNext ==
    \/ Tick
    \/ \E session \in SessionIds, m \in MatchResults : evaluateIn(session, m)
    \/ \E session \in SessionIds : restartSession(session)

SessionsSpec == Init /\ [][SessionsNext]_vars

\* ------------------------------------------------- store: Person, events
\* The positions of the events that reference person p.
Referencing(evs, p) == {i \in 1..Len(evs) : evs[i].personId = p}

\* The relation with onDelete: Cascade.
onDeletePerson_Cascade(evs, p) ==
    LET keep(e) == e.personId # p IN SelectSeq(evs, keep)

\* person Person? @relation(fields: [personId], references: [id],
\* onDelete: SetNull): the events of a deleted Person with personId null.
onDeletePerson(evs, p) ==
    [i \in 1..Len(evs) |->
        IF evs[i].personId = p THEN [evs[i] EXCEPT !.personId = None] ELSE evs[i]]

\* POST /people
dbCreatePerson(p) ==
    /\ p \notin dbPeople
    /\ dbPeople' = dbPeople \cup {p}
    /\ UNCHANGED <<dbEvents, lastDelete>>
    /\ UNCHANGED <<coreVars, sessionsVars, settingsVars, taskVars, peopleVars,
                 helpVars, apiVars, uploadVars, viewVars>>

\* A TimelineEvent is created; personId references a Person or is null.
dbRecordEvent(eventType, personId) ==
    /\ Len(dbEvents) < MaxDbEvents
    /\ personId \in dbPeople \cup {None}
    /\ dbEvents' = Append(dbEvents, [id |-> Len(dbEvents) + 1,
                                     eventType |-> eventType,
                                     personId |-> personId])
    /\ UNCHANGED <<dbPeople, lastDelete>>
    /\ UNCHANGED <<coreVars, sessionsVars, settingsVars, taskVars, peopleVars,
                 helpVars, apiVars, uploadVars, viewVars>>

\* DELETE /people/:id
dbDeletePerson(p) ==
    /\ p \in dbPeople
    /\ dbPeople' = dbPeople \ {p}
    /\ dbEvents' = onDeletePerson(dbEvents, p)
    /\ lastDelete' = [personId |-> p, referencing |-> Referencing(dbEvents, p)]
    /\ UNCHANGED <<coreVars, sessionsVars, settingsVars, taskVars, peopleVars,
                 helpVars, apiVars, uploadVars, viewVars>>

StoreNext ==
    \/ \E p \in PersonIds : dbCreatePerson(p)
    \/ \E p \in PersonIds \cup {None} : dbRecordEvent("recognition", p)
    \/ dbRecordEvent("confused", None)
    \/ \E p \in PersonIds : dbDeletePerson(p)

StoreSpec == Init /\ [][StoreNext]_vars

\* ------------------------------------------------- store: Settings
UserIds == {"u1", "u2"}
DefaultMessage == "You are at home. Everything is okay."
Messages == {DefaultMessage, "You are safe."}

\* The Settings rows of a user.
SettingsOf(rows, userId) == {r \in rows : r.userId = userId}

\* userId without the @unique attribute.
UniqueUserId_NotUnique(rows, userId) == TRUE

\* userId String @unique: a row with this userId may be inserted.
UniqueUserId(rows, userId) == SettingsOf(rows, userId) = {}

\* A Settings row is inserted for a user; the store rejects the insert when
\* it breaks the unique constraint.
insertSettings(userId, message) ==
    /\ nextRowId <= MaxRows
    /\ IF UniqueUserId(dbSettings, userId)
       THEN /\ dbSettings' = dbSettings \cup
                  {[id |-> nextRowId, userId |-> userId,
                    reassuranceMessage |-> message]}
            /\ nextRowId' = nextRowId + 1
            /\ UNCHANGED rejected
       ELSE /\ rejected' = TRUE
            /\ UNCHANGED <<dbSettings, nextRowId>>
    /\ UNCHANGED dbCaregivers
    /\ UNCHANGED <<coreVars, sessionsVars, storeVars, taskVars, peopleVars,
                 helpVars, apiVars, uploadVars, viewVars>>

\* PUT /settings
putSettings(userId, message) ==
    /\ SettingsOf(dbSettings, userId) # {}
    /\ dbSettings' = {IF r.userId = userId
                      THEN [r EXCEPT !.reassuranceMessage = message]
                      ELSE r : r \in dbSettings}
    /\ UNCHANGED <<dbCaregivers, nextRowId, rejected>>
    /\ UNCHANGED <<coreVars, sessionsVars, storeVars, taskVars, peopleVars,
                 helpVars, apiVars, uploadVars, viewVars>>

\* POST /settings/caregivers
postCaregiver(userId) ==
    /\ nextRowId <= MaxRows
    /\ \E r \in SettingsOf(dbSettings, userId) :
          dbCaregivers' = dbCaregivers \cup
              {[id |-> nextRowId, settingsId |-> r.id]}
    /\ nextRowId' = nextRowId + 1
    /\ UNCHANGED <<dbSettings, rejected>>
    /\ UNCHANGED <<coreVars, sessionsVars, storeVars, taskVars, peopleVars,
                 helpVars, apiVars, uploadVars, viewVars>>

\* DELETE /settings/caregivers/:id
deleteCaregiver(caregiver) ==
    /\ caregiver \in dbCaregivers
    /\ dbCaregivers' = dbCaregivers \ {caregiver}
    /\ UNCHANGED <<dbSettings, nextRowId, rejected>>
    /\ UNCHANGED <<coreVars, sessionsVars, storeVars, taskVars, peopleVars,
                 helpVars, apiVars, uploadVars, viewVars>>

\* The User is deleted: onDelete: Cascade removes its Settings and their
\* Caregivers.
deleteUser(userId) ==
    /\ SettingsOf(dbSettings, userId) # {}
    /\ dbSettings' = dbSettings \ SettingsOf(dbSettings, userId)
    /\ dbCaregivers' = {g \in dbCaregivers :
                          \A r \in SettingsOf(dbSettings, userId) :
                              g.settingsId # r.id}
    /\ UNCHANGED <<nextRowId, rejected>>
    /\ UNCHANGED <<coreVars, sessionsVars, storeVars, taskVars, peopleVars,
                 helpVars, apiVars, uploadVars, viewVars>>

SettingsNext ==
    \/ \E u \in UserIds : insertSettings(u, DefaultMessage)
    \/ \E u \in UserIds, m \in Messages : putSettings(u, m)
    \/ \E u \in UserIds : postCaregiver(u)
    \/ \E g \in dbCaregivers : deleteCaregiver(g)
    \/ \E u \in UserIds : deleteUser(u)

SettingsSpec == Init /\ [][SettingsNext]_vars

\* ------------------------------------------------- store: Task
Dates == {"2025-11-26", "2025-11-27"}
\* The times of day of the tasks: <<hours, minutes>>.
Times == {<<9, 0>>, <<10, 0>>, <<15, 30>>}

\* Strings are sequences of character codes.
Digit(d) == 48 + d
Colon == 58

\* The string without padStart for the hours.
timeString_NoPad(hours, minutes) ==
    (IF hours < 10 THEN <<Digit(hours)>>
     ELSE <<Digit(hours \div 10), Digit(hours % 10)>>)
    \o <<Colon, Digit(minutes \div 10), Digit(minutes % 10)>>

\* `${hours.toString().padStart(2, '0')}:${minutes.toString().padStart(2, '0')}`
timeString(hours, minutes) ==
    <<Digit(hours \div 10), Digit(hours % 10), Colon,
      Digit(minutes \div 10), Digit(minutes % 10)>>

\* Number of a string of digits.
RECURSIVE Number(_)
Number(str) ==
    IF str = <<>> THEN 0
    ELSE 10 * Number(SubSeq(str, 1, Len(str) - 1)) + (str[Len(str)] - 48)

\* const [hours, minutes] = timeStr.split(':').map(Number), in minutes.
TimeOfDay(timeStr) ==
    LET colon == CHOOSE i \in 1..Len(timeStr) : timeStr[i] = Colon
    IN  60 * Number(SubSeq(timeStr, 1, colon - 1))
        + Number(SubSeq(timeStr, colon + 1, Len(timeStr)))

\* The order of strings: a is before b or equal to it.
RECURSIVE StringLeq(_, _)
StringLeq(a, b) ==
    IF a = <<>> THEN TRUE
    ELSE IF b = <<>> THEN FALSE
    ELSE IF Head(a) # Head(b) THEN Head(a) < Head(b)
    ELSE StringLeq(Tail(a), Tail(b))

\* The rows in ascending order of the column time.
orderByTime(rows) ==
    CHOOSE seq \in [1..Cardinality(rows) -> rows] :
        /\ \A i, j \in DOMAIN seq : i # j => seq[i] # seq[j]
        /\ \A i, j \in DOMAIN seq :
              i < j => StringLeq(seq[i].time, seq[j].time)

\* GET /tasks?date= : the tasks of the user for the date, ordered by time.
listTasks(rows, userId, date) ==
    orderByTime({t \in rows : t.userId = userId /\ t.date = date})

\* POST /tasks
postTask(userId, date, time) ==
    /\ nextTaskId <= MaxTasks
    /\ dbTasks' = dbTasks \cup
          {[id |-> nextTaskId, userId |-> userId, date |-> date,
            time |-> timeString(time[1], time[2])]}
    /\ nextTaskId' = nextTaskId + 1
    /\ taskList' = NoList
    /\ UNCHANGED <<coreVars, sessionsVars, storeVars, settingsVars, peopleVars,
                 helpVars, apiVars, uploadVars, viewVars>>

\* DELETE /tasks/:id
deleteTask(task) ==
    /\ task \in dbTasks
    /\ dbTasks' = dbTasks \ {task}
    /\ taskList' = NoList
    /\ UNCHANGED nextTaskId
    /\ UNCHANGED <<coreVars, sessionsVars, storeVars, settingsVars, peopleVars,
                 helpVars, apiVars, uploadVars, viewVars>>

\* fetchTasks: the tasks of a successful envelope, else the empty list.
fetchTasks(outcome) ==
    IF outcome.kind = "throw" THEN <<>>
    ELSE IF outcome.success THEN outcome.data.tasks ELSE <<>>

\* loadTasks of a user: fetchTasks(date), then setTasks(tasksData).
loadTasks(userId, date) ==
    /\ taskList' = [kind |-> "list", userId |-> userId, date |-> date,
                    tasks |-> fetchTasks(Body(TRUE,
                        [tasks |-> listTasks(dbTasks, userId, date)]))]
    /\ UNCHANGED <<dbTasks, nextTaskId>>
    /\ UNCHANGED <<coreVars, sessionsVars, storeVars, settingsVars, peopleVars,
                 helpVars, apiVars, uploadVars, viewVars>>

TaskNext ==
    \/ \E u \in UserIds, d \in Dates, t \in Times : postTask(u, d, t)
    \/ \E t \in dbTasks : deleteTask(t)
    \/ \E u \in UserIds, d \in Dates : loadTasks(u, d)

TaskSpec == Init /\ [][TaskNext]_vars

\* ------------------------------------------------- PeopleList
plOthers == <<coreVars, sessionsVars, storeVars, settingsVars, taskVars,
              helpVars, apiVars, uploadVars, viewVars>>

\* Error Response: { "success": false, "error": { "code": ... } }
ErrorBody(code) ==
    [kind |-> "body", success |-> FALSE, error |-> [code |-> code]]

\* The validation of the body of a create or an update: name is required.
Valid(form) == form # ""

\* createPerson: the person of a successful envelope, else null.
createPerson(outcome) ==
    IF outcome.kind = "throw" THEN Null
    ELSE IF outcome.success THEN outcome.data.person ELSE Null

\* updatePerson: the person of a successful envelope, else null.
updatePerson(outcome) ==
    IF outcome.kind = "throw" THEN Null
    ELSE IF outcome.success THEN outcome.data.person ELSE Null

\* if (updated) setPeople(people.map((p) => (p.id === editingId ? updated : p)))
\* where people is the list of the render that called saveEdit; current is
\* the list when the call returns.
afterSaveEdit(current, list, id, updated) ==
    IF updated # Null
    THEN [i \in DOMAIN list |-> IF list[i].id = id THEN updated ELSE list[i]]
    ELSE current

\* saveNew that sets the list of its render when createPerson returned null.
afterSaveNew_SetsAlways(current, list, newPerson) ==
    IF newPerson # Null THEN Append(list, newPerson) ELSE list

\* if (newPerson) setPeople([...people, newPerson])
\* where people is the list of the render that called saveNew; current is
\* the list when the call returns.
afterSaveNew(current, list, newPerson) ==
    IF newPerson # Null THEN Append(list, newPerson) ELSE current

IsFree(k) == plCalls[k] = Free
Editing == editingId # None /\ \E i \in DOMAIN people : people[i].id = editingId

startEdit(person) ==
    /\ editingId = None /\ ~isAdding
    /\ \E i \in DOMAIN people : people[i] = person
    /\ editingId' = person.id
    /\ editForm' = person.name
    /\ UNCHANGED <<plServer, plNextId, people, isAdding, plCalls, plSaves, plDone>>
    /\ UNCHANGED plMore
    /\ UNCHANGED plOthers

\* An Add button that is never disabled.
AddDisabled_Never == FALSE

\* disabled={isAdding || editingId !== null} of the Add button.
AddDisabled == isAdding \/ editingId # None

startAdd ==
    /\ ~AddDisabled
    /\ isAdding' = TRUE
    /\ editForm' = ""
    /\ UNCHANGED <<plServer, plNextId, people, editingId, plCalls, plSaves, plDone>>
    /\ UNCHANGED plMore
    /\ UNCHANGED plOthers

\* onChange of the name input of the form.
setEditForm(name) ==
    /\ Editing \/ isAdding
    /\ editForm' = name
    /\ UNCHANGED <<plServer, plNextId, people, editingId, isAdding, plCalls,
                   plSaves, plDone>>
    /\ UNCHANGED plMore
    /\ UNCHANGED plOthers

cancelEdit ==
    /\ Editing \/ isAdding
    /\ editingId' = None
    /\ isAdding' = FALSE
    /\ UNCHANGED <<plServer, plNextId, people, editForm, plCalls, plSaves, plDone>>
    /\ UNCHANGED plMore
    /\ UNCHANGED plOthers

\* saveEdit up to its await: the request of updatePerson is sent.
saveEdit(k) ==
    /\ Editing
    /\ IsFree(k)
    /\ plSaves < MaxSaves
    /\ plSaves' = plSaves + 1
    /\ plCalls' = [plCalls EXCEPT ![k] =
          [op |-> "saveEdit", id |-> editingId, form |-> editForm,
           people |-> people, outcome |-> Pending]]
    /\ UNCHANGED <<plServer, plNextId, people, editingId, isAdding, editForm,
                   plDone>>
    /\ UNCHANGED plMore
    /\ UNCHANGED plOthers

\* saveNew up to its await: the request of createPerson is sent.
saveNew(k) ==
    /\ isAdding
    /\ IsFree(k)
    /\ plSaves < MaxSaves
    /\ plSaves' = plSaves + 1
    /\ plCalls' = [plCalls EXCEPT ![k] =
          [op |-> "saveNew", id |-> None, form |-> editForm,
           people |-> people, outcome |-> Pending]]
    /\ UNCHANGED <<plServer, plNextId, people, editingId, isAdding, editForm,
                   plDone>>
    /\ UNCHANGED plMore
    /\ UNCHANGED plOthers

\* POST /people: a valid body creates the person, an invalid one is
\* answered by the error response.
postPeople(k) ==
    /\ plCalls[k].op = "saveNew" /\ plCalls[k].outcome = Pending
    /\ IF Valid(plCalls[k].form)
       THEN /\ plNextId <= MaxPersonId
            /\ LET person == [id |-> PersonId(plNextId), name |-> plCalls[k].form]
               IN  /\ plServer' = plServer \cup {person}
                   /\ plCalls' = [plCalls EXCEPT ![k].outcome =
                                     Body(TRUE, [person |-> person])]
            /\ plNextId' = plNextId + 1
       ELSE /\ plCalls' = [plCalls EXCEPT ![k].outcome =
                              ErrorBody("VALIDATION_ERROR")]
            /\ UNCHANGED <<plServer, plNextId>>
    /\ UNCHANGED <<people, editingId, isAdding, editForm, plSaves, plDone>>
    /\ UNCHANGED plMore
    /\ UNCHANGED plOthers

\* PUT /people/:id: a valid body updates the person, an invalid one is
\* answered by the error response.
putPeople(k) ==
    /\ plCalls[k].op = "saveEdit" /\ plCalls[k].outcome = Pending
    /\ IF Valid(plCalls[k].form)
       THEN LET person == [id |-> plCalls[k].id, name |-> plCalls[k].form]
            IN  /\ plServer' = {IF q.id = person.id THEN person ELSE q :
                                q \in plServer}
                /\ plCalls' = [plCalls EXCEPT ![k].outcome =
                                  Body(TRUE, [person |-> person])]
       ELSE /\ plCalls' = [plCalls EXCEPT ![k].outcome =
                              ErrorBody("VALIDATION_ERROR")]
            /\ UNCHANGED plServer
    /\ UNCHANGED <<plNextId, people, editingId, isAdding, editForm, plSaves,
                   plDone>>
    /\ UNCHANGED plMore
    /\ UNCHANGED plOthers

\* fetch rejects or res.json() throws: the request did not reach the backend.
fetchFails(k) ==
    /\ ~IsFree(k) /\ plCalls[k].outcome = Pending
    /\ plCalls' = [plCalls EXCEPT ![k].outcome = Thrown("network")]
    /\ UNCHANGED <<plServer, plNextId, people, editingId, isAdding, editForm,
                   plSaves, plDone>>
    /\ UNCHANGED plMore
    /\ UNCHANGED plOthers

\* saveEdit after its await.
saveEditReturns(k) ==
    /\ plCalls[k].op = "saveEdit" /\ plCalls[k].outcome # Pending
    /\ people' = afterSaveEdit(people, plCalls[k].people, plCalls[k].id,
                               updatePerson(plCalls[k].outcome))
    /\ editingId' = None
    /\ plDone' = [op |-> plCalls[k].op, outcome |-> plCalls[k].outcome]
    /\ plCalls' = [plCalls EXCEPT ![k] = Free]
    /\ UNCHANGED <<plServer, plNextId, isAdding, editForm, plSaves>>
    /\ UNCHANGED plMore
    /\ UNCHANGED plOthers

\* saveNew after its await.
saveNewReturns(k) ==
    /\ plCalls[k].op = "saveNew" /\ plCalls[k].outcome # Pending
    /\ people' = afterSaveNew(people, plCalls[k].people,
                              createPerson(plCalls[k].outcome))
    /\ isAdding' = FALSE
    /\ plDone' = [op |-> plCalls[k].op, outcome |-> plCalls[k].outcome]
    /\ plCalls' = [plCalls EXCEPT ![k] = Free]
    /\ UNCHANGED <<plServer, plNextId, editingId, editForm, plSaves>>
    /\ UNCHANGED plMore
    /\ UNCHANGED plOthers

\* deletePerson: data.success, false when fetch or res.json() threw.
deletePerson(outcome) ==
    IF outcome.kind = "throw" THEN FALSE ELSE outcome.success

\* uploadPersonPhoto: the person of a successful envelope, else null.
uploadPersonPhoto(outcome) ==
    IF outcome.kind = "throw" THEN Null
    ELSE IF outcome.success THEN outcome.data.person ELSE Null

\* if (success) setPeople(people.filter((p) => p.id !== id))
\* where people is the list of the render that called handleDelete; current
\* is the list when the call returns.
afterDelete(current, list, id, success) ==
    IF success THEN SelectSeq(list, LAMBDA q : q.id # id) ELSE current

\* if (updatedPerson) setPeople(people.map((p) => (p.id === personId ?
\* updatedPerson : p))) where people is the list of the render that called
\* handlePhotoUpload; current is the list when the call returns.
afterPhotoUpload(current, list, personId, updatedPerson) ==
    IF updatedPerson # Null
    THEN [i \in DOMAIN list |->
             IF list[i].id = personId THEN updatedPerson ELSE list[i]]
    ELSE current

\* The buttons of a person's row are enabled.
RowEnabled == editingId = None /\ ~isAdding

\* handleDelete(id) up to its await: the request of deletePerson is sent.
handleDelete(k, id) ==
    /\ RowEnabled
    /\ \E i \in DOMAIN people : people[i].id = id
    /\ IsFree(k)
    /\ plRemoves < MaxRemoves
    /\ plRemoves' = plRemoves + 1
    /\ plCalls' = [plCalls EXCEPT ![k] =
          [op |-> "handleDelete", id |-> id, form |-> "",
           people |-> people, outcome |-> Pending]]
    /\ UNCHANGED <<plServer, plNextId, people, editingId, isAdding, editForm,
                   plSaves, plDone, uploadingPhotoFor, plDeleted>>
    /\ UNCHANGED plOthers

\* handlePhotoUpload(personId) up to its await: the request of
\* uploadPersonPhoto is sent.
handlePhotoUpload(k, personId) ==
    /\ RowEnabled /\ uploadingPhotoFor # personId
    /\ \E i \in DOMAIN people : people[i].id = personId
    /\ IsFree(k)
    /\ plRemoves < MaxRemoves
    /\ plRemoves' = plRemoves + 1
    /\ uploadingPhotoFor' = personId
    /\ plCalls' = [plCalls EXCEPT ![k] =
          [op |-> "handlePhotoUpload", id |-> personId, form |-> "",
           people |-> people, outcome |-> Pending]]
    /\ UNCHANGED <<plServer, plNextId, people, editingId, isAdding, editForm,
                   plSaves, plDone, plDeleted>>
    /\ UNCHANGED plOthers

\* DELETE /people/:id
deletePeople(k) ==
    /\ plCalls[k].op = "handleDelete" /\ plCalls[k].outcome = Pending
    /\ IF \E q \in plServer : q.id = plCalls[k].id
       THEN /\ plServer' = {q \in plServer : q.id # plCalls[k].id}
            /\ plCalls' = [plCalls EXCEPT ![k].outcome =
                              Body(TRUE, [message |-> "Operation successful"])]
       ELSE /\ plCalls' = [plCalls EXCEPT ![k].outcome = ErrorBody("NOT_FOUND")]
            /\ UNCHANGED plServer
    /\ UNCHANGED <<plNextId, people, editingId, isAdding, editForm, plSaves,
                   plDone>>
    /\ UNCHANGED plMore
    /\ UNCHANGED plOthers

\* POST /people/:id/upload-photo: the person of the backend with its photo.
postUploadPhoto(k) ==
    /\ plCalls[k].op = "handlePhotoUpload" /\ plCalls[k].outcome = Pending
    /\ plCalls' = [plCalls EXCEPT ![k].outcome =
          IF \E q \in plServer : q.id = plCalls[k].id
          THEN Body(TRUE, [person |->
                  CHOOSE q \in plServer : q.id = plCalls[k].id])
          ELSE ErrorBody("NOT_FOUND")]
    /\ UNCHANGED <<plServer, plNextId, people, editingId, isAdding, editForm,
                   plSaves, plDone>>
    /\ UNCHANGED plMore
    /\ UNCHANGED plOthers

\* handleDelete after its await.
handleDeleteReturns(k) ==
    /\ plCalls[k].op = "handleDelete" /\ plCalls[k].outcome # Pending
    /\ LET success == deletePerson(plCalls[k].outcome)
       IN  /\ people' = afterDelete(people, plCalls[k].people, plCalls[k].id,
                                    success)
           /\ plDeleted' = IF success THEN plDeleted \cup {plCalls[k].id}
                           ELSE plDeleted
    /\ plDone' = [op |-> plCalls[k].op, outcome |-> plCalls[k].outcome]
    /\ plCalls' = [plCalls EXCEPT ![k] = Free]
    /\ UNCHANGED <<plServer, plNextId, editingId, isAdding, editForm, plSaves,
                   uploadingPhotoFor, plRemoves>>
    /\ UNCHANGED plOthers

\* handlePhotoUpload after its await.
handlePhotoUploadReturns(k) ==
    /\ plCalls[k].op = "handlePhotoUpload" /\ plCalls[k].outcome # Pending
    /\ people' = afterPhotoUpload(people, plCalls[k].people, plCalls[k].id,
                                  uploadPersonPhoto(plCalls[k].outcome))
    /\ uploadingPhotoFor' = None
    /\ plDone' = [op |-> plCalls[k].op, outcome |-> plCalls[k].outcome]
    /\ plCalls' = [plCalls EXCEPT ![k] = Free]
    /\ UNCHANGED <<plServer, plNextId, editingId, isAdding, editForm, plSaves,
                   plRemoves, plDeleted>>
    /\ UNCHANGED plOthers

PeopleListNext ==
    \/ \E i \in DOMAIN people : startEdit(people[i])
    \/ startAdd
    \/ \E name \in Names \cup {""} : setEditForm(name)
    \/ cancelEdit
    \/ \E k \in Slots : saveEdit(k)
    \/ \E k \in Slots : saveNew(k)
    \/ \E k \in Slots : postPeople(k)
    \/ \E k \in Slots : putPeople(k)
    \/ \E k \in Slots : fetchFails(k)
    \/ \E k \in Slots : saveEditReturns(k)
    \/ \E k \in Slots : saveNewReturns(k)

PeopleListSpec == Init /\ [][PeopleListNext]_vars

\* The people list with its deletes and photo uploads, and the adding of
\* people.
PeopleRemoveNext ==
    \/ startAdd
    \/ \E name \in Names : setEditForm(name)
    \/ \E k \in Slots : saveNew(k)
    \/ \E k \in Slots : postPeople(k)
    \/ \E k \in Slots : saveNewReturns(k)
    \/ \E k \in Slots, i \in DOMAIN people : handleDelete(k, people[i].id)
    \/ \E k \in Slots, i \in DOMAIN people :
          handlePhotoUpload(k, people[i].id)
    \/ \E k \in Slots : deletePeople(k)
    \/ \E k \in Slots : postUploadPhoto(k)
    \/ \E k \in Slots : fetchFails(k)
    \/ \E k \in Slots : handleDeleteReturns(k)
    \/ \E k \in Slots : handlePhotoUploadReturns(k)

PeopleRemoveSpec == Init /\ [][PeopleRemoveNext]_vars

\* ------------------------------------------------- HelpButton
helpOthers == <<coreVars, sessionsVars, storeVars, settingsVars, taskVars,
                peopleVars, apiVars, uploadVars, viewVars>>

\* The settings of the backend: the message and the caregivers.
HelpData ==
    [reassurance_message |-> "You are at home. Everything is okay.",
     caregivers |-> <<"Sarah">>]

\* triggerHelp: message and caregivers of a successful envelope, else null.
triggerHelp(outcome) ==
    IF outcome.kind = "throw" THEN Null
    ELSE IF outcome.success
         THEN [message |-> outcome.data.reassurance_message,
               caregivers |-> outcome.data.caregivers]
         ELSE Null

\* handleHelpClick up to its await; the button is reached with the dialog
\* closed.
handleHelpClick(k) ==
    /\ ~showHelp
    /\ helpClicks < MaxHelpClicks
    /\ helpCalls[k] = Free
    /\ helpClicks' = helpClicks + 1
    /\ helpIsLoading' = TRUE
    /\ showHelp' = TRUE
    /\ helpCalls' = [helpCalls EXCEPT ![k] = [op |-> "help", outcome |-> Pending]]
    /\ UNCHANGED <<reassuranceMessage, caregivers, helpEvents>>
    /\ UNCHANGED helpOthers

\* onOpenChange={setShowHelp}: the dialog is closed.
closeHelp ==
    /\ showHelp
    /\ showHelp' = FALSE
    /\ UNCHANGED <<helpIsLoading, reassuranceMessage, caregivers, helpCalls,
                   helpClicks, helpEvents>>
    /\ UNCHANGED helpOthers

\* POST /help: creates the TimelineEvent of type "confused" and returns the
\* message and the caregivers.
postHelp(k) ==
    /\ helpCalls[k] # Free /\ helpCalls[k].outcome = Pending
    /\ helpEvents' = Append(helpEvents, [eventType |-> "confused", call |-> k])
    /\ helpCalls' = [helpCalls EXCEPT ![k].outcome = Body(TRUE, HelpData)]
    /\ UNCHANGED <<showHelp, helpIsLoading, reassuranceMessage, caregivers,
                   helpClicks>>
    /\ UNCHANGED helpOthers

\* fetch rejects: the request did not reach the backend.
helpFails(k) ==
    /\ helpCalls[k] # Free /\ helpCalls[k].outcome = Pending
    /\ helpCalls' = [helpCalls EXCEPT ![k].outcome = Thrown("network")]
    /\ UNCHANGED <<showHelp, helpIsLoading, reassuranceMessage, caregivers,
                   helpClicks, helpEvents>>
    /\ UNCHANGED helpOthers

\* handleHelpClick after its await.
handleHelpReturns(k) ==
    /\ helpCalls[k] # Free /\ helpCalls[k].outcome # Pending
    /\ LET helpData == triggerHelp(helpCalls[k].outcome)
       IN  IF helpData # Null
           THEN /\ reassuranceMessage' = helpData.message
                /\ caregivers' = helpData.caregivers
           ELSE UNCHANGED <<reassuranceMessage, caregivers>>
    /\ helpIsLoading' = FALSE
    /\ helpCalls' = [helpCalls EXCEPT ![k] = Free]
    /\ UNCHANGED <<showHelp, helpClicks, helpEvents>>
    /\ UNCHANGED helpOthers

HelpNext ==
    \/ \E k \in Slots : handleHelpClick(k)
    \/ closeHelp
    \/ \E k \in Slots : postHelp(k)
    \/ \E k \in Slots : helpFails(k)
    \/ \E k \in Slots : handleHelpReturns(k)

HelpSpec == Init /\ [][HelpNext]_vars

\* ------------------------------------------------- api client
apiOthers == <<coreVars, sessionsVars, storeVars, settingsVars, taskVars,
               peopleVars, helpVars, uploadVars, viewVars>>

ApiFunctions ==
    {"fetchPeople", "createPerson", "updatePerson", "deletePerson",
     "fetchTasks", "fetchSettings", "fetchTimeline", "triggerHelp",
     "recognizeFace"}
ListFunctions == {"fetchPeople", "fetchTasks", "fetchTimeline"}
ErrorCodes == {"VALIDATION_ERROR", "NOT_FOUND"}

\* What the backend has to return for a function.
Contents(fn) ==
    CASE fn \in ListFunctions -> {<<>>, <<"x">>, <<"x", "y">>}
      [] fn = "triggerHelp" -> {HelpData}
      [] fn = "recognizeFace" ->
            {MatchData(id, a, RecognitionEvent(id, 0)) :
                id \in PersonIds, a \in BOOLEAN}
            \cup {NoMatchData(RecognitionEvent(None, 0))}
      [] fn = "deletePerson" -> {TRUE}
      [] OTHER -> {[id |-> "1"], [id |-> "2"]}

\* data of the envelope of a successful response.
Data(fn, content) ==
    CASE fn = "fetchPeople" -> [people |-> content]
      [] fn \in {"createPerson", "updatePerson"} -> [person |-> content]
      [] fn = "fetchTasks" -> [tasks |-> content]
      [] fn = "fetchSettings" -> [settings |-> content]
      [] fn = "fetchTimeline" -> [events |-> content]
      [] fn = "deletePerson" -> [message |-> "Operation successful"]
      [] OTHER -> content

\* The responses and failures of a call.
Outcomes(fn) ==
    {Thrown("fetch"), Thrown("json")}
    \cup {ErrorBody(code) : code \in ErrorCodes}
    \cup {Body(TRUE, Data(fn, content)) : content \in Contents(fn)}

\* The value a function returns without a payload.
Fallback(fn) ==
    CASE fn \in ListFunctions -> <<>>
      [] fn = "deletePerson" -> FALSE
      [] OTHER -> Null

\* fetchPeople: the people of a successful envelope, else the empty list.
fetchPeople(outcome) ==
    IF outcome.kind = "throw" THEN <<>>
    ELSE IF outcome.success THEN outcome.data.people ELSE <<>>

\* fetchSettings: the settings of a successful envelope, else null.
fetchSettings(outcome) ==
    IF outcome.kind = "throw" THEN Null
    ELSE IF outcome.success THEN outcome.data.settings ELSE Null

\* fetchTimeline: the events of a successful envelope, else the empty list.
fetchTimeline(outcome) ==
    IF outcome.kind = "throw" THEN <<>>
    ELSE IF outcome.success THEN outcome.data.events ELSE <<>>

\* The api client without the catch of its functions.
apiClient_NoCatch(fn, outcome) ==
    IF outcome.kind = "throw"
    THEN [threw |-> TRUE, value |-> Null]
    ELSE [threw |-> FALSE, value |-> Null]

\* The function fn of the api client on a response or failure of fetch:
\* what it returns and whether an exception left it.
apiClient(fn, outcome) ==
    [threw |-> IF fn = "recognizeFace" THEN recognizeFace(outcome).threw
               ELSE FALSE,
     value |->
        CASE fn = "fetchPeople" -> fetchPeople(outcome)
          [] fn = "createPerson" -> createPerson(outcome)
          [] fn = "updatePerson" -> updatePerson(outcome)
          [] fn = "deletePerson" -> deletePerson(outcome)
          [] fn = "fetchTasks" -> fetchTasks(outcome)
          [] fn = "fetchSettings" -> fetchSettings(outcome)
          [] fn = "fetchTimeline" -> fetchTimeline(outcome)
          [] fn = "triggerHelp" -> triggerHelp(outcome)
          [] fn = "recognizeFace" -> recognizeFace(outcome).value]

\* A function of the api client is called and its fetch ends with outcome.
callApi(fn, outcome) ==
    /\ apiCalls < MaxApiCalls
    /\ apiCalls' = apiCalls + 1
    /\ apiCall' = [op |-> fn, outcome |-> outcome,
                   returned |-> apiClient(fn, outcome)]
    /\ UNCHANGED apiOthers

ApiNext == \E fn \in ApiFunctions : \E outcome \in Outcomes(fn) : callApi(fn, outcome)

ApiSpec == Init /\ [][ApiNext]_vars

\* ------------------------------------------------- upload-photo endpoint
\* The Person rows of the backend: person "B" does not exist.
UploadPeople == {"A"}

\* File names <<stem, extension>>; <<stem>> has no '.', <<>> is ''.
Filenames == {<<>>, <<"a">>, <<"a", "txt">>, <<"a", "jpg">>, <<"a", "JPG">>}
\* What the photo shows: a face or none.
Photos == {"face1", "face2", "no face"}
\* The request has no file 'photo'.
NoFile == [photo |-> None]
\* No path: photo_url of a person without photo.
NoPath == <<>>
Files == {[filename |-> f, photo |-> c] : f \in Filenames, c \in Photos}

allowed_extensions == {"png", "jpg", "jpeg", "gif"}
lower(extension) == IF extension = "JPG" THEN "jpg" ELSE extension

\* generate_face_encoding: the first face encoding, None if no face is found.
generate_face_encoding(photo) == IF photo = "no face" THEN None ELSE photo

\* jsonify({'success': False, 'error': error}), status
Failed(error, status) == [success |-> FALSE, error |-> error, status |-> status]

\* The clean up that leaves the file.
osRemove_Keeps(files, filepath) == files

\* os.remove(filepath)
osRemove(files, filepath) == {f \in files : f.filepath # filepath}

\* file.save(filepath): the file is written, over a file of the same path.
fileSave(files, filepath, photo) ==
    {f \in files : f.filepath # filepath}
    \cup {[filepath |-> filepath, photo |-> photo]}

\* upload_photo(person_id) with the files of the request at time t.
upload_photo(person_id, file, t) ==
    /\ uploads < MaxUploads
    /\ uploads' = uploads + 1
    /\ IF file = NoFile
       THEN /\ lastUpload' = [op |-> "upload", filepath |-> NoPath, saved |-> FALSE,
                              photo |-> None,
                              response |-> Failed("No photo provided", 400)]
            /\ UNCHANGED <<uploadFiles, uploadPerson>>
       ELSE IF file.filename = <<>>
       THEN /\ lastUpload' = [op |-> "upload", filepath |-> NoPath, saved |-> FALSE,
                              photo |-> None,
                              response |-> Failed("No file selected", 400)]
            /\ UNCHANGED <<uploadFiles, uploadPerson>>
       ELSE IF ~(Len(file.filename) = 2
                 /\ lower(file.filename[2]) \in allowed_extensions)
       THEN /\ lastUpload' = [op |-> "upload", filepath |-> NoPath, saved |-> FALSE,
                              photo |-> None,
                              response |-> Failed("Invalid file type", 400)]
            /\ UNCHANGED <<uploadFiles, uploadPerson>>
       ELSE IF person_id \notin UploadPeople
       THEN /\ lastUpload' = [op |-> "upload", filepath |-> NoPath, saved |-> FALSE,
                              photo |-> None,
                              response |-> Failed("Person not found", 404)]
            /\ UNCHANGED <<uploadFiles, uploadPerson>>
       ELSE LET filepath == <<person_id, t, file.filename>>
                saved == fileSave(uploadFiles, filepath, file.photo)
                encoding == generate_face_encoding(file.photo)
            IN  IF encoding = None
                THEN /\ uploadFiles' = osRemove(saved, filepath)
                     /\ lastUpload' =
                          [op |-> "upload", filepath |-> filepath, saved |-> TRUE,
                           photo |-> file.photo,
                           response |-> Failed("No face detected in photo", 400)]
                     /\ UNCHANGED uploadPerson
                ELSE /\ uploadFiles' = saved
                     /\ uploadPerson' = [photo_url |-> filepath,
                                         face_encoding |-> encoding]
                     /\ lastUpload' =
                          [op |-> "upload", filepath |-> filepath, saved |-> TRUE,
                           photo |-> file.photo,
                           response |-> [success |-> TRUE, status |-> 200,
                                         person |-> uploadPerson']]
    /\ UNCHANGED <<coreVars, sessionsVars, storeVars, settingsVars, taskVars,
                   peopleVars, helpVars, apiVars, viewVars>>

UploadNext ==
    \/ Tick
    \/ \E person_id \in PersonIds, file \in Files \cup {NoFile} :
          upload_photo(person_id, file, now)

UploadSpec == Init /\ [][UploadNext]_vars

\* ------------------------------------------------- PhotoCaptureDialog
dialogOthers == <<earlierVars, weekVars, timelineVars, dayVars, parseVars,
    plannerVars>>

\* stopCamera: if (stream) stream.getTracks().forEach(track => track.stop())
\* with the stream s of the render the function belongs to.
stopCamera(s, running) == IF s # NoStream THEN running \ {s} ELSE running

\* {showCameraFor && <PhotoCaptureDialog open={true} .../>}: the dialog is
\* mounted; its effect runs with stream null and calls startCamera, up to
\* the await of getUserMedia.
mountDialog ==
    /\ ~dlgOpen
    /\ dlgMounts < MaxMounts
    /\ dlgMounts' = dlgMounts + 1
    /\ dlgOpen' = TRUE
    /\ stream' = NoStream
    /\ captured' = NoPhoto
    /\ shots' = 0
    /\ effectStream' = NoStream
    /\ cameraCalls' = cameraCalls \cup {dlgMounts + 1}
    /\ UNCHANGED <<onCaptureCalls, cameraRunning>>
    /\ UNCHANGED dialogOthers

\* getUserMedia of mount m resolves: the stream runs; startCamera goes on
\* with setStream(mediaStream), which an unmounted dialog ignores.
getUserMediaResolves(m) ==
    /\ m \in cameraCalls
    /\ cameraCalls' = cameraCalls \ {m}
    /\ cameraRunning' = cameraRunning \cup {m}
    /\ stream' = IF dlgOpen /\ m = dlgMounts THEN m ELSE stream
    /\ UNCHANGED <<dlgOpen, dlgMounts, effectStream, captured, shots,
                   onCaptureCalls>>
    /\ UNCHANGED dialogOthers

\* getUserMedia of mount m rejects: catch (err), no stream.
getUserMediaRejects(m) ==
    /\ m \in cameraCalls
    /\ cameraCalls' = cameraCalls \ {m}
    /\ UNCHANGED <<dlgOpen, dlgMounts, stream, effectStream, captured, shots,
                   onCaptureCalls, cameraRunning>>
    /\ UNCHANGED dialogOthers

\* capturePhoto: the button and the video are shown while nothing is
\* captured; the frame of the video is drawn and kept in captured.
capturePhoto ==
    /\ dlgOpen /\ captured = NoPhoto
    /\ shots < MaxShots
    /\ shots' = shots + 1
    /\ captured' = shots + 1
    /\ UNCHANGED <<dlgOpen, dlgMounts, stream, effectStream, onCaptureCalls,
                   cameraCalls, cameraRunning>>
    /\ UNCHANGED dialogOthers

\* Retake: setCaptured(null)
retakePhoto ==
    /\ dlgOpen /\ captured # NoPhoto
    /\ captured' = NoPhoto
    /\ UNCHANGED <<dlgOpen, dlgMounts, stream, effectStream, shots,
                   onCaptureCalls, cameraCalls, cameraRunning>>
    /\ UNCHANGED dialogOthers

\* handleClose: stopCamera(), setCaptured(null), onClose(); the parent
\* unmounts the dialog and the cleanup of the effect calls its stopCamera.
handleClose ==
    /\ dlgOpen
    /\ cameraRunning' =
          stopCamera(effectStream, stopCamera(stream, cameraRunning))
    /\ stream' = NoStream
    /\ captured' = NoPhoto
    /\ dlgOpen' = FALSE
    /\ UNCHANGED <<dlgMounts, effectStream, shots, onCaptureCalls,
                   cameraCalls>>
    /\ UNCHANGED dialogOthers

\* handleUsePhoto: if (!captured) return; onCapture(captured); handleClose()
handleUsePhoto ==
    /\ dlgOpen /\ captured # NoPhoto
    /\ onCaptureCalls' = onCaptureCalls + 1
    /\ cameraRunning' =
          stopCamera(effectStream, stopCamera(stream, cameraRunning))
    /\ stream' = NoStream
    /\ captured' = NoPhoto
    /\ dlgOpen' = FALSE
    /\ UNCHANGED <<dlgMounts, effectStream, shots, cameraCalls>>
    /\ UNCHANGED dialogOthers

\* The parent unmounts the dialog (PeopleList leaves the page): only the
\* cleanup of the effect runs.
unmountDialog ==
    /\ dlgOpen
    /\ cameraRunning' = stopCamera(effectStream, cameraRunning)
    /\ dlgOpen' = FALSE
    /\ UNCHANGED <<dlgMounts, stream, effectStream, captured, shots,
                   onCaptureCalls, cameraCalls>>
    /\ UNCHANGED dialogOthers

DialogNext ==
    \/ mountDialog
    \/ \E m \in cameraCalls : getUserMediaResolves(m)
    \/ \E m \in cameraCalls : getUserMediaRejects(m)
    \/ capturePhoto
    \/ retakePhoto
    \/ handleClose
    \/ handleUsePhoto
    \/ unmountDialog

DialogSpec == Init /\ [][DialogNext]_vars

\* ------------------------------------------------- weekly CalendarView
weekOthers == <<earlierVars, dialogVars, timelineVars, dayVars, parseVars,
    plannerVars>>

\* for (let i = 0; i < 7; i++): the days of the week
WeekLength == 7

\* clearInterval that leaves the interval set.
clearInterval_Keeps(interval) == interval

\* clearInterval(interval): the interval is no longer set.
clearInterval(interval) == FALSE

\* loadWeekData up to its first await: setIsLoading(true), days = [] and
\* the fetches of the first day are sent.
loadWeekData(k, by) ==
    /\ wkLoads[k] = Free
    /\ wkStarted < MaxWeekLoads
    /\ wkStarted' = wkStarted + 1
    /\ wkLoads' = [wkLoads EXCEPT ![k] =
                      [id |-> wkStarted + 1, by |-> by, days |-> 0]]
    /\ wkLoading' = IF wkPhase = "unmounted" THEN wkLoading ELSE TRUE

\* useEffect(..., []): loadWeekData() and setInterval(..., 10000)
mountCalendarView ==
    /\ wkPhase = "initial"
    /\ wkPhase' = "mounted"
    /\ wkInterval' = TRUE
    /\ loadWeekData("first", "mount")
    /\ UNCHANGED <<weekDays, wkPlanner>>
    /\ UNCHANGED weekOthers

\* The interval fires: loadWeekData()
intervalCalendarView ==
    /\ wkInterval
    /\ \E k \in Slots : loadWeekData(k, "timer")
    /\ UNCHANGED <<wkPhase, wkInterval, weekDays, wkPlanner>>
    /\ UNCHANGED weekOthers

\* {!isLoading && <VoicePlanner onDone={loadWeekData} />}: the planner is
\* shown while nothing loads; a run of it is started.
startVoicePlanner ==
    /\ wkPhase = "mounted" /\ ~wkLoading
    /\ ~wkPlanner
    /\ wkPlanner' = TRUE
    /\ UNCHANGED <<wkPhase, wkInterval, weekDays, wkLoading, wkLoads,
                   wkStarted>>
    /\ UNCHANGED weekOthers

\* The run of the VoicePlanner ends: onDone(), which is loadWeekData.
onDoneCalendarView ==
    /\ wkPlanner
    /\ wkPlanner' = FALSE
    /\ \E k \in Slots : loadWeekData(k, "onDone")
    /\ UNCHANGED <<wkPhase, wkInterval, weekDays>>
    /\ UNCHANGED weekOthers

\* await Promise.all([fetchTasks(dateStr), fetchTimeline(dateStr)]) of one
\* day returns and days.push(...); the next day is fetched.
fetchDay(k) ==
    /\ wkLoads[k] # Free
    /\ wkLoads[k].days < WeekLength
    /\ wkLoads' = [wkLoads EXCEPT ![k].days = @ + 1]
    /\ UNCHANGED <<wkPhase, wkInterval, weekDays, wkLoading, wkStarted,
                   wkPlanner>>
    /\ UNCHANGED weekOthers

\* After the loop: setWeekDays(days); setIsLoading(false). An unmounted
\* component ignores the updates.
loadWeekDataReturns(k) ==
    /\ wkLoads[k] # Free
    /\ wkLoads[k].days = WeekLength
    /\ wkLoads' = [wkLoads EXCEPT ![k] = Free]
    /\ weekDays' = IF wkPhase = "mounted" THEN wkLoads[k].id ELSE weekDays
    /\ wkLoading' = IF wkPhase = "mounted" THEN FALSE ELSE wkLoading
    /\ UNCHANGED <<wkPhase, wkInterval, wkStarted, wkPlanner>>
    /\ UNCHANGED weekOthers

\* return () => { if (interval) clearInterval(interval) }
unmountCalendarView ==
    /\ wkPhase = "mounted"
    /\ wkPhase' = "unmounted"
    /\ wkInterval' = clearInterval(wkInterval)
    /\ UNCHANGED <<weekDays, wkLoading, wkLoads, wkStarted, wkPlanner>>
    /\ UNCHANGED weekOthers

WeekNext ==
    \/ mountCalendarView
    \/ intervalCalendarView
    \/ startVoicePlanner
    \/ onDoneCalendarView
    \/ \E k \in Slots : fetchDay(k)
    \/ \E k \in Slots : loadWeekDataReturns(k)
    \/ unmountCalendarView

WeekSpec == Init /\ [][WeekNext]_vars

\* ------------------------------------------------- Timeline
timelineOthers == <<earlierVars, dialogVars, weekVars, dayVars, parseVars,
    plannerVars>>

\* loadTimeline up to its await: setIsLoading(true) and fetchTimeline()
loadTimeline(by) ==
    /\ tlStarted < MaxTimelineLoads
    /\ tlStarted' = tlStarted + 1
    /\ tlLoads' = tlLoads \cup {[id |-> tlStarted + 1, by |-> by]}
    /\ tlLoading' = IF tlPhase = "unmounted" THEN tlLoading ELSE TRUE

\* useEffect(..., []): loadTimeline() and setInterval(loadTimeline, 30000)
mountTimeline ==
    /\ tlPhase = "initial"
    /\ tlPhase' = "mounted"
    /\ tlInterval' = TRUE
    /\ loadTimeline("mount")
    /\ UNCHANGED tlEvents
    /\ UNCHANGED timelineOthers

\* The interval fires: loadTimeline()
intervalTimeline ==
    /\ tlInterval
    /\ loadTimeline("timer")
    /\ UNCHANGED <<tlPhase, tlInterval, tlEvents>>
    /\ UNCHANGED timelineOthers

\* fetchTimeline() returns: setEvents(data); setIsLoading(false)
loadTimelineReturns(load) ==
    /\ load \in tlLoads
    /\ tlLoads' = tlLoads \ {load}
    /\ tlEvents' = IF tlPhase = "mounted" THEN load.id ELSE tlEvents
    /\ tlLoading' = IF tlPhase = "mounted" THEN FALSE ELSE tlLoading
    /\ UNCHANGED <<tlPhase, tlInterval, tlStarted>>
    /\ UNCHANGED timelineOthers

\* return () => clearInterval(interval)
unmountTimeline ==
    /\ tlPhase = "mounted"
    /\ tlPhase' = "unmounted"
    /\ tlInterval' = clearInterval(tlInterval)
    /\ UNCHANGED <<tlEvents, tlLoading, tlLoads, tlStarted>>
    /\ UNCHANGED timelineOthers

TimelineNext ==
    \/ mountTimeline
    \/ intervalTimeline
    \/ \E load \in tlLoads : loadTimelineReturns(load)
    \/ unmountTimeline

PollNext ==
    \/ WeekNext
    \/ TimelineNext

PollSpec == Init /\ [][PollNext]_vars

\* ------------------------------------------------- the items of a day
dayOthers == <<earlierVars, dialogVars, weekVars, timelineVars, parseVars,
    plannerVars>>

\* The local times of day of the tasks and events of a day:
\* <<hours, minutes>>.
DayTimes == {<<0, 30>>, <<9, 0>>, <<10, 0>>, <<12, 15>>, <<14, 30>>,
             <<15, 0>>}

Space == 32
LetterA == 65
LetterM == 77
LetterP == 80

\* A number without padding.
numberString(n) ==
    IF n < 10 THEN <<Digit(n)>> ELSE <<Digit(n \div 10), Digit(n % 10)>>

\* `${displayHour}:${minutes.toString().padStart(2, '0')} ${period}`
twelveHourString(hours, minutes) ==
    numberString(IF hours % 12 = 0 THEN 12 ELSE hours % 12)
    \o <<Colon, Digit(minutes \div 10), Digit(minutes % 10), Space,
         IF hours >= 12 THEN LetterP ELSE LetterA, LetterM>>

\* formatEventTime: date.toLocaleTimeString("en-US", { hour: "numeric",
\* minute: "2-digit", hour12: true }) of the local time of the timestamp.
formatEventTime(timestamp) == twelveHourString(timestamp[1], timestamp[2])

\* time.replace(/[^\d:]/g, '')
digitsAndColons(time) ==
    SelectSeq(time, LAMBDA ch : ch = Colon \/ (ch >= Digit(0) /\ ch <= Digit(9)))

\* The collation of localeCompare puts punctuation before the digits.
collationKey(ch) == IF ch = Colon THEN 0 ELSE ch

\* a.localeCompare(b) for strings of digits and colons: negative, zero or
\* positive.
RECURSIVE localeCompare(_, _)
localeCompare(a, b) ==
    IF a = <<>> /\ b = <<>> THEN 0
    ELSE IF a = <<>> THEN -1
    ELSE IF b = <<>> THEN 1
    ELSE IF collationKey(Head(a)) < collationKey(Head(b)) THEN -1
    ELSE IF collationKey(Head(a)) > collationKey(Head(b)) THEN 1
    ELSE localeCompare(Tail(a), Tail(b))

\* The comparison function of items.sort.
compareItems(a, b) ==
    localeCompare(digitsAndColons(a.time), digitsAndColons(b.time))

\* Array.prototype.sort is stable: an item goes behind the items that
\* do not compare greater.
RECURSIVE insertItem(_, _)
insertItem(sorted, item) ==
    IF sorted = <<>> THEN <<item>>
    ELSE IF compareItems(sorted[Len(sorted)], item) <= 0
         THEN Append(sorted, item)
    ELSE Append(insertItem(SubSeq(sorted, 1, Len(sorted) - 1), item),
                sorted[Len(sorted)])

RECURSIVE sortItems(_)
sortItems(items) ==
    IF items = <<>> THEN <<>>
    ELSE insertItem(sortItems(SubSeq(items, 1, Len(items) - 1)),
                    items[Len(items)])

taskItem(task) == [time |-> task.time, type |-> "task", data |-> task]

eventItem(event) ==
    [time |-> formatEventTime(event.timestamp), type |-> "event",
     data |-> event]

\* getGroupedItems(day): the tasks, then the events, sorted by time.
getGroupedItems(day) ==
    sortItems([i \in 1..Len(day.tasks) |-> taskItem(day.tasks[i])]
              \o [i \in 1..Len(day.events) |-> eventItem(day.events[i])])

\* The lists of at most MaxDayItems times of day.
TimeLists == UNION {[1..n -> DayTimes] : n \in 0..MaxDayItems}

Minutes(time) == 60 * time[1] + time[2]

\* The tasks of a day as the backend returns them, in the order of time.
DayTasks ==
    {[i \in 1..Len(l) |-> [id |-> i, time |-> timeString(l[i][1], l[i][2])]] :
        l \in {t \in TimeLists :
                 \A i \in 1..(Len(t) - 1) : Minutes(t[i]) <= Minutes(t[i + 1])}}

\* The events of a day as the backend returns them, newest first.
DayEvents ==
    {[i \in 1..Len(l) |-> [id |-> i, timestamp |-> l[i]]] :
        l \in {t \in TimeLists :
                 \A i \in 1..(Len(t) - 1) : Minutes(t[i]) >= Minutes(t[i + 1])}}

\* days.push({ ..., tasks: tasks || [], events: events || [] }) and
\* setWeekDays(days): the data of a day.
setDayData(tasks, evts) ==
    /\ dayPhase = "none"
    /\ dayData' = [tasks |-> tasks, events |-> evts]
    /\ dayPhase' = "loaded"
    /\ groupedItems' = <<>>
    /\ UNCHANGED dayOthers

\* renderDayDetails(day): const items = getGroupedItems(day)
renderDayDetails ==
    /\ dayPhase = "loaded"
    /\ groupedItems' = getGroupedItems(dayData)
    /\ dayPhase' = "rendered"
    /\ UNCHANGED dayData
    /\ UNCHANGED dayOthers

DayNext ==
    \/ \E tasks \in DayTasks, evts \in DayEvents : setDayData(tasks, evts)
    \/ renderDayDetails

DaySpec == Init /\ [][DayNext]_vars

\* ------------------------------------------------- parseTimeFromText
parseOthers == <<earlierVars, dialogVars, weekVars, timelineVars, dayVars,
    plannerVars>>

\* The character of a text at a position, 0 outside the text.
CharAt(text, i) == IF i \in 1..Len(text) THEN text[i] ELSE 0

\* \d
IsDigit(ch) == ch >= Digit(0) /\ ch <= Digit(9)

\* \w, of which \b is the boundary
IsWordChar(ch) ==
    \/ IsDigit(ch)
    \/ ch \in 65..90
    \/ ch \in 97..122
    \/ ch = 95

\* \s
IsSpace(ch) == ch = Space

\* The flag i: letters match in either case.
LowerCase(ch) == IF ch \in 65..90 THEN ch + 32 ELSE ch

\* \b before the character at position i
WordBoundary(text, i) ==
    IsWordChar(CharAt(text, i - 1)) # IsWordChar(CharAt(text, i))

\* (am|pm) at position i
IsAmPm(text, i) ==
    /\ LowerCase(CharAt(text, i)) \in {97, 112}
    /\ LowerCase(CharAt(text, i + 1)) = 109

\* \s* from position i: the position behind the spaces
RECURSIVE SkipSpaces(_, _)
SkipSpaces(text, i) ==
    IF IsSpace(CharAt(text, i)) THEN SkipSpaces(text, i + 1) ELSE i

\* \d{n} at position i
DigitsAt(text, i, n) == \A x \in 0..(n - 1) : IsDigit(CharAt(text, i + x))

\* :\d{2} at position i
MinutesAt(text, i) ==
    CharAt(text, i) = Colon /\ DigitsAt(text, i + 1, 2)

\* The first end of a match among the attempts in the order the regular
\* expression tries them, 0 if none matches.
RECURSIVE FirstMatch(_)
FirstMatch(ends) ==
    IF ends = <<>> THEN 0
    ELSE IF Head(ends) # 0 THEN Head(ends)
    ELSE FirstMatch(Tail(ends))

\* \s*(am|pm)\b from position i: the position behind the match, 0 if none
AmPmEnd(text, i) ==
    LET k == SkipSpaces(text, i)
    IN  IF IsAmPm(text, k) /\ WordBoundary(text, k + 2) THEN k + 2 ELSE 0

\* (\b\d{1,2}(:\d{2})?\s*(am|pm)\b) at position i
TimeWithAmPmEnd(text, i) ==
    LET try(n, withMinutes) ==
            IF /\ DigitsAt(text, i, n)
               /\ withMinutes => MinutesAt(text, i + n)
            THEN AmPmEnd(text, i + n + (IF withMinutes THEN 3 ELSE 0))
            ELSE 0
    IN  IF ~WordBoundary(text, i) THEN 0
        ELSE FirstMatch(<<try(2, TRUE), try(2, FALSE),
                          try(1, TRUE), try(1, FALSE)>>)

\* (at\s+\d{1,2}(:\d{2})?\s*(am|pm)?) at position i
AtTimeEnd(text, i) ==
    LET digits == SkipSpaces(text, i + 2)
        minutes == IF IsDigit(CharAt(text, digits + 1)) THEN digits + 2
                   ELSE digits + 1
        spaces == IF MinutesAt(text, minutes) THEN minutes + 3 ELSE minutes
        ampm == SkipSpaces(text, spaces)
    IN  IF /\ LowerCase(CharAt(text, i)) = 97
           /\ LowerCase(CharAt(text, i + 1)) = 116
           /\ IsSpace(CharAt(text, i + 2))
           /\ IsDigit(CharAt(text, digits))
        THEN IF IsAmPm(text, ampm) THEN ampm + 2 ELSE ampm
        ELSE 0

\* (\b\d{1,2}:\d{2}\b) at position i
ClockTimeEnd(text, i) ==
    LET try(n) ==
            IF /\ DigitsAt(text, i, n)
               /\ MinutesAt(text, i + n)
               /\ WordBoundary(text, i + n + 3)
            THEN i + n + 3
            ELSE 0
    IN  IF ~WordBoundary(text, i) THEN 0
        ELSE FirstMatch(<<try(2), try(1)>>)

\* timeRegex at position i
timeRegexEnd(text, i) ==
    FirstMatch(<<TimeWithAmPmEnd(text, i), AtTimeEnd(text, i),
                 ClockTimeEnd(text, i)>>)

\* text.match(timeRegex): m[0] of the leftmost match, the empty string
\* if there is none.
RECURSIVE matchTime(_, _)
matchTime(text, i) ==
    IF i > Len(text) THEN <<>>
    ELSE IF timeRegexEnd(text, i) # 0
         THEN SubSeq(text, i, timeRegexEnd(text, i) - 1)
    ELSE matchTime(text, i + 1)

\* matched.match(/(am|pm)/i): "am", "pm" or "none"
ampmOf(matched) ==
    LET at == {i \in 1..Len(matched) : IsAmPm(matched, i)}
    IN  IF at = {} THEN "none"
        ELSE LET first == CHOOSE i \in at : \A j \in at : i <= j
             IN  IF LowerCase(matched[first]) = 97 THEN "am" ELSE "pm"

\* The hours without the rule for 12 am.
adjustHours_NoMidnight(hours, ampm) ==
    IF ampm = "pm" /\ hours < 12 THEN hours + 12 ELSE hours

\* if (ampm === 'pm' && hours < 12) hours += 12
\* if (ampm === 'am' && hours === 12) hours = 0
adjustHours(hours, ampm) ==
    IF ampm = "pm" /\ hours < 12 THEN hours + 12
    ELSE IF ampm = "am" /\ hours = 12 THEN 0
    ELSE hours

\* parseTimeFromText(text): "HH:MM", the empty string for null
parseTimeFromText(text) ==
    LET matched == matchTime(text, 1)
        digits == digitsAndColons(matched)
        colons == {i \in 1..Len(digits) : digits[i] = Colon}
        colon == CHOOSE i \in colons : \A j \in colons : i <= j
        hours == IF colons # {} THEN Number(SubSeq(digits, 1, colon - 1))
                 ELSE Number(digits)
        minutes == IF colons # {}
                   THEN Number(SubSeq(digits, colon + 1, Len(digits)))
                   ELSE 0
    IN  IF matched = <<>> THEN <<>>
        ELSE timeString(adjustHours(hours, ampmOf(matched)), minutes)

\* formatTime(timeStr) of the daily calendar: the 12-hour text of "HH:MM"
formatTime(timeStr) ==
    twelveHourString(Number(SubSeq(timeStr, 1, 2)),
                     Number(SubSeq(timeStr, 4, 5)))

\* The words before the number of a phrase: none, "at ", "go ".
PhraseStarts == {<<>>, <<97, 116, 32>>, <<103, 111, 32>>}
\* The digits of the number of a phrase.
PhraseDigits == {0, 1, 2, 3, 9}
PhraseNumbers ==
    UNION {[1..n -> {Digit(d) : d \in PhraseDigits}] : n \in 1..MaxHourDigits}
\* The minutes of a phrase: none, ":00", ":30", ":99".
PhraseMinutes ==
    {<<>>, <<Colon, Digit(0), Digit(0)>>, <<Colon, Digit(3), Digit(0)>>,
     <<Colon, Digit(9), Digit(9)>>}
\* The end of a phrase: none, "am", "pm", "PM", with or without a space.
PhraseEnds ==
    {<<>>, <<97, 109>>, <<112, 109>>, <<LetterP, LetterM>>,
     <<Space, 97, 109>>, <<Space, 112, 109>>, <<Space, LetterP, LetterM>>}
\* The spoken phrases.
Phrases ==
    {<<108, 117, 110, 99, 104>>}
    \cup {a \o n \o m \o e : a \in PhraseStarts, n \in PhraseNumbers,
                            m \in PhraseMinutes, e \in PhraseEnds}

\* The valid 24-hour times "HH:MM".
ValidTimes == {timeString(h, m) : h \in 0..23, m \in 0..59}

\* A phrase is given to parseTimeFromText.
hearPhrase(text) ==
    /\ parsePhase = "none"
    /\ parsePhase' = "heard"
    /\ phrase' = text
    /\ UNCHANGED <<timeShown, parsedTime>>
    /\ UNCHANGED parseOthers

\* The text formatTime makes of a time is given to parseTimeFromText.
showTime(timeStr) ==
    /\ parsePhase = "none"
    /\ parsePhase' = "heard"
    /\ timeShown' = timeStr
    /\ phrase' = formatTime(timeStr)
    /\ UNCHANGED parsedTime
    /\ UNCHANGED parseOthers

\* const time = parseTimeFromText(part)
parsePhrase ==
    /\ parsePhase = "heard"
    /\ parsePhase' = "parsed"
    /\ parsedTime' = parseTimeFromText(phrase)
    /\ UNCHANGED <<phrase, timeShown>>
    /\ UNCHANGED parseOthers

ParseNext ==
    \/ \E text \in Phrases : hearPhrase(text)
    \/ \E timeStr \in ValidTimes : showTime(timeStr)
    \/ parsePhrase

ParseSpec == Init /\ [][ParseNext]_vars

\* ------------------------------------------------- parseAndCreateTasks
plannerOthers ==
    <<earlierVars, dialogVars, weekVars, timelineVars, dayVars, parseVars>>

\* A word at position i of a text, in either case.
WordAt(text, i, word) ==
    \A x \in 1..Len(word) : LowerCase(CharAt(text, i + x - 1)) = word[x]

\* /\bthen\b|,|\.|and then/gi at position i: the length of the separator,
\* 0 if there is none.
separatorAt(text, i) ==
    IF /\ WordAt(text, i, <<116, 104, 101, 110>>)
       /\ WordBoundary(text, i) /\ WordBoundary(text, i + 4)
    THEN 4
    ELSE IF CharAt(text, i) \in {44, 46} THEN 1
    ELSE IF WordAt(text, i, <<97, 110, 100, 32, 116, 104, 101, 110>>) THEN 8
    ELSE 0

\* text.split(...): the pieces between the separators
RECURSIVE splitText(_, _, _)
splitText(text, i, piece) ==
    IF i > Len(text) THEN <<piece>>
    ELSE IF separatorAt(text, i) # 0
         THEN <<piece>> \o splitText(text, i + separatorAt(text, i), <<>>)
    ELSE splitText(text, i + 1, Append(piece, text[i]))

\* p.trim()
RECURSIVE trim(_)
trim(text) ==
    IF text = <<>> THEN text
    ELSE IF IsSpace(Head(text)) THEN trim(Tail(text))
    ELSE IF IsSpace(text[Len(text)]) THEN trim(SubSeq(text, 1, Len(text) - 1))
    ELSE text

\* text.split(...).map(p => p.trim()).filter(Boolean)
partsOf(text) ==
    LET pieces == splitText(text, 1, <<>>)
    IN  SelectSeq([i \in 1..Len(pieces) |-> trim(pieces[i])],
                  LAMBDA p : p # <<>>)

\* part.replace(/at\s+\d{1,2}(:\d{2})?\s*(am|pm)?/i, ''): the part without
\* the leftmost match, from position i on.
RECURSIVE removeAtTime(_, _)
removeAtTime(part, i) ==
    IF i > Len(part) THEN part
    ELSE IF AtTimeEnd(part, i) # 0
         THEN SubSeq(part, 1, i - 1) \o SubSeq(part, AtTimeEnd(part, i), Len(part))
    ELSE removeAtTime(part, i + 1)

\* const title = part.replace(...).trim()
titleOf(part) == trim(removeAtTime(part, 1))

\* createTask of the api client: the task of a successful envelope, else
\* null.
createTask(outcome) ==
    IF outcome.kind = "throw" THEN Null
    ELSE IF outcome.success THEN outcome.data.task ELSE Null

\* The check of the result that takes every result for a task.
taskSaved_Always(res) == TRUE

\* if (res)
taskSaved(res) == res # Null

\* The for loop from part number next on, up to the await of createTask or
\* to its end: the parts without a time or without a title are skipped.
RECURSIVE runLoop(_, _, _, _)
runLoop(parts, next, created, skipped) ==
    IF next > Len(parts)
    THEN [phase |-> "done", parts |-> parts, next |-> next,
          created |-> created, skipped |-> skipped]
    ELSE IF parseTimeFromText(parts[next]) = <<>>
         THEN runLoop(parts, next + 1, created, Append(skipped, parts[next]))
    ELSE IF titleOf(parts[next]) = <<>>
         THEN runLoop(parts, next + 1, created, Append(skipped, parts[next]))
    ELSE [phase |-> "createTask", parts |-> parts, next |-> next,
          created |-> created, skipped |-> skipped]

\* After the loop: setStatus(`Saved ... Skipped ...`); if (onDone) onDone()
afterLoop(run) ==
    /\ vpStatus' = IF run.phase = "done"
                   THEN [saved |-> Len(run.created),
                         skipped |-> Len(run.skipped)]
                   ELSE vpStatus
    /\ onDoneCalls' = IF run.phase = "done" THEN onDoneCalls + 1
                      ELSE onDoneCalls

\* recognition.onresult: setTranscript(text) and parseAndCreateTasks(text)
\* up to its first await.
parseAndCreateTasks(text) ==
    /\ vpRun.phase = "idle"
    /\ transcript' = text
    /\ vpRun' = runLoop(partsOf(text), 1, <<>>, <<>>)
    /\ afterLoop(vpRun')
    /\ UNCHANGED vpSent
    /\ UNCHANGED plannerOthers

\* The request of createTask is answered; parseAndCreateTasks goes on up to
\* the next await.
createTaskReturns(outcome) ==
    /\ vpRun.phase = "createTask"
    /\ LET part == vpRun.parts[vpRun.next]
           res == createTask(outcome)
       IN  /\ vpSent' = Append(vpSent, [part |-> vpRun.next, res |-> res])
           /\ vpRun' =
                 IF taskSaved(res)
                 THEN runLoop(vpRun.parts, vpRun.next + 1,
                              Append(vpRun.created,
                                     parseTimeFromText(part) \o <<Space>>
                                        \o titleOf(part)),
                              vpRun.skipped)
                 ELSE runLoop(vpRun.parts, vpRun.next + 1, vpRun.created,
                              Append(vpRun.skipped, part))
    /\ afterLoop(vpRun')
    /\ UNCHANGED transcript
    /\ UNCHANGED plannerOthers

\* The pieces of a spoken text: "walk at 3 pm", "lunch", "at 3 pm",
\* "9:30 tea" and nothing.
Pieces ==
    {<<119, 97, 108, 107, 32, 97, 116, 32, 51, 32, 112, 109>>,
     <<108, 117, 110, 99, 104>>,
     <<97, 116, 32, 51, 32, 112, 109>>,
     <<57, 58, 51, 48, 32, 116, 101, 97>>,
     <<>>}
\* The separators of a spoken text: ", " and " and then ".
Separators ==
    {<<44, 32>>, <<32, 97, 110, 100, 32, 116, 104, 101, 110, 32>>}

\* The texts of n pieces.
RECURSIVE TextsOf(_)
TextsOf(n) ==
    IF n = 1 THEN Pieces
    ELSE {t \o sep \o p : t \in TextsOf(n - 1), sep \in Separators,
                          p \in Pieces}

Texts == UNION {TextsOf(n) : n \in 1..MaxPieces}

\* The answers to createTask: the task, an error envelope, a network error.
TaskOutcomes(part) ==
    {Body(TRUE, [task |-> [title |-> titleOf(part),
                           time |-> parseTimeFromText(part)]]),
     ErrorBody("VALIDATION_ERROR"), Thrown("network")}

PlannerNext ==
    \/ \E text \in Texts : parseAndCreateTasks(text)
    \/ /\ vpRun.phase = "createTask"
       /\ \E outcome \in TaskOutcomes(vpRun.parts[vpRun.next]) :
             createTaskReturns(outcome)

PlannerSpec == Init /\ [][PlannerNext]_vars

\* ------------------------------------------------- properties of the gate
Calls == 1..Len(log)
IsMatch(i) == log[i].match.matched
Announced(i) == log[i].data.should_announce
\* Calls i..j are all matches of the same person.
SameRun(i, j) ==
    \A k \in i..j : IsMatch(k) /\ log[k].match.personId = log[i].match.personId
\* Call i opens a run: it is the very first evaluation, or the evaluation
\* before it matched somebody else.
OpensRun(i) ==
    /\ IsMatch(i)
    /\ \/ i = 1
       \/ IsMatch(i - 1) /\ log[i - 1].match.personId # log[i].match.personId

\* C1: in a run of matches of one person, the call that opens the run is
\* announced; after an announced call, every later call of the run that is
\* less than one cooldown after it is not announced; and the next call of the
\* run at or after the cooldown is announced again.
C1_AnnouncedOncePerCooldown ==
    /\ \A i \in Calls : OpensRun(i) => Announced(i)
    /\ \A i \in Calls, j \in Calls :
         (i < j /\ SameRun(i, j) /\ Announced(i)
            /\ log[j].now - log[i].now < Cooldown)
         => ~Announced(j)
    /\ \A i \in Calls, j \in Calls :
         (i < j /\ SameRun(i, j) /\ Announced(i)
            /\ (\A k \in (i + 1)..(j - 1) : ~Announced(k))
            /\ log[j].now - log[i].now >= Cooldown)
         => Announced(j)

\* Three matches of one person at three different minutes of one cooldown
\* window: the first announced, the two later ones suppressed.
C1_Witness ==
    /\ Len(log) >= 3
    /\ SameRun(1, 3)
    /\ log[1].now < log[2].now /\ log[2].now < log[3].now
    /\ log[3].now - log[1].now < Cooldown
    /\ Announced(1) /\ ~Announced(2) /\ ~Announced(3)

\* C2: a match of a person other than the last announced one is announced,
\* whatever remains of the previous person's cooldown.
C2_DifferentPersonAnnounced ==
    \A i \in Calls :
        (IsMatch(i) /\ log[i].match.personId # log[i].before.lastAnnouncedPersonId)
        => Announced(i)

\* A person is matched while another person's cooldown is still running.
C2_Witness ==
    \E i \in Calls :
        /\ IsMatch(i)
        /\ log[i].before.lastAnnouncedPersonId \in PersonIds
        /\ log[i].match.personId # log[i].before.lastAnnouncedPersonId
        /\ log[i].now - log[i].before.lastAnnouncedAt < Cooldown
        /\ Announced(i)

\* C3: an evaluation of NoMatch returns no person and shouldAnnounce = false
\* and leaves (lastAnnouncedPersonId, lastAnnouncedAt) as they were.
C3_NoMatchLeavesGate ==
    \A i \in Calls :
        ~IsMatch(i) =>
            /\ log[i].data.person = None
            /\ ~log[i].data.should_announce
            /\ log[i].after = log[i].before

\* NoMatch evaluated twice in a row on a gate that has announced somebody.
C3_Witness ==
    \E i \in Calls :
        /\ i + 1 \in Calls
        /\ ~IsMatch(i) /\ ~IsMatch(i + 1)
        /\ log[i].before.lastAnnouncedPersonId \in PersonIds
        /\ log[i + 1].after = log[i].before

\* The condition under which a match of person id at time t is announced.
AnnounceCondition(before, id, t) ==
    \/ id # before.lastAnnouncedPersonId
    \/ before.lastAnnouncedAt = NoTime
    \/ t - before.lastAnnouncedAt >= Cooldown

\* C4: a match is announced exactly when the person differs from the last
\* announced one, or nothing was announced yet, or at least one cooldown has
\* passed since the last announcement; an announced match sets
\* lastAnnouncedPersonId to the person and lastAnnouncedAt to now.
C4_AnnounceExactlyWhen ==
    \A i \in Calls :
        IsMatch(i) =>
            /\ Announced(i)
                 <=> AnnounceCondition(log[i].before, log[i].match.personId, log[i].now)
            /\ Announced(i) =>
                 log[i].after = [lastAnnouncedPersonId |-> log[i].match.personId,
                                 lastAnnouncedAt |-> log[i].now]

\* The boundary: the same person matched exactly one cooldown after its
\* announcement is announced again.
C4_Witness ==
    \E i \in Calls :
        /\ IsMatch(i)
        /\ log[i].match.personId = log[i].before.lastAnnouncedPersonId
        /\ log[i].now - log[i].before.lastAnnouncedAt = Cooldown
        /\ Announced(i)
        /\ log[i].after.lastAnnouncedAt = log[i].now

\* The first n evaluations were of the matches ms at the minutes ts.
Scenario(ms, ts) ==
    /\ Len(log) >= Len(ms)
    /\ \A i \in 1..Len(ms) : log[i].match = ms[i] /\ log[i].now = ts[i]

ScenarioABA ==
    Scenario(<<Matched("A"), Matched("A"), Matched("B"), Matched("A")>>,
             <<0, 1, 2, 3>>)

\* C5: with a cooldown of 5 minutes, match(A) at 0, match(A) at 1,
\* match(B) at 2, match(A) at 3 are announced true, false, true, true.
C5_LastPersonOnly ==
    ScenarioABA =>
        /\ Cooldown = 5
        /\ Announced(1) /\ ~Announced(2) /\ Announced(3) /\ Announced(4)

\* The four evaluations of the scenario have been made.
C5_Witness ==
    /\ ScenarioABA
    /\ Len(log) = 4
    /\ Announced(4)
    /\ lastAnnouncedPersonId = "A" /\ lastAnnouncedAt = 3

\* C6: a match that is not announced leaves lastAnnouncedPersonId and
\* lastAnnouncedAt as they were.
C6_SuppressedLeavesGate ==
    \A i \in Calls :
        (IsMatch(i) /\ ~Announced(i)) => log[i].after = log[i].before

\* A suppressed sighting does not extend the cooldown: a person announced,
\* seen again within the cooldown, and announced again one cooldown after
\* the announcement although the suppressed sighting is more recent.
C6_Witness ==
    \E i \in Calls :
        /\ i + 2 \in Calls
        /\ SameRun(i, i + 2)
        /\ Announced(i) /\ ~Announced(i + 1) /\ Announced(i + 2)
        /\ log[i].now < log[i + 1].now
        /\ log[i + 2].now - log[i + 1].now < Cooldown
        /\ log[i + 2].now - log[i].now >= Cooldown

\* ---------------------------------------------- properties of the session
\* The outcome carries a matched person.
MatchedResponse(c) == c.kind = "body" /\ c.success /\ c.data.person # None
\* The outcome is a failure of the matcher call.
Failure(c) == c.kind = "throw" \/ (c.kind = "body" /\ ~c.success)

C17_AppendOnlyNewestFirst ==
    [][ /\ timelineEvents' # timelineEvents
           => /\ Len(timelineEvents') = Len(timelineEvents) + 1
              /\ Tail(timelineEvents') = timelineEvents
        /\ \A i, j \in 1..Len(timelineEvents') :
              i < j => timelineEvents'[i].timestamp
                         >= timelineEvents'[j].timestamp ]_vars

\* Three recognitions have completed at three different times.
C17_Witness ==
    /\ Len(timelineEvents) = 3
    /\ timelineEvents[1].timestamp > timelineEvents[2].timestamp
    /\ timelineEvents[2].timestamp > timelineEvents[3].timestamp

C11_OffDiscardsInFlight ==
    [][ (~isVisitorMode /\ ~isVisitorMode')
        => /\ timers' <= timers
           /\ currentPerson' = currentPerson ]_vars

\* ----------------------------------- properties of the sessions' gates
\* C12: the first match a session evaluates after it (re)started is
\* announced, and an operation on one session leaves the gate of every other
\* session as it was.
C12_GatePerSession ==
    [][ /\ (lastOp'.kind = "evaluate" /\ lastOp'.match.matched /\ lastOp'.first)
           => lastOp'.shouldAnnounce
        /\ \A t \in SessionIds :
             gates'[t] # gates[t] => lastOp'.session = t ]_vars

\* After a restart a session announces the person it had announced less than
\* one cooldown earlier, while the other session is inside a cooldown of its
\* own.
C12_Witness ==
    /\ lastOp.kind = "evaluate"
    /\ lastOp.match.matched
    /\ lastOp.first
    /\ lastOp.shouldAnnounce
    /\ lastOp.earlier.lastAnnouncedPersonId = lastOp.match.personId
    /\ lastOp.now - lastOp.earlier.lastAnnouncedAt < Cooldown
    /\ \E t \in SessionIds :
         /\ t # lastOp.session
         /\ gates[t].lastAnnouncedPersonId = lastOp.match.personId
         /\ gates[t].lastAnnouncedAt < lastOp.now

\* ------------------------------------------------ properties of the store
\* C13: deleting a Person keeps every TimelineEvent: the number of events is
\* unchanged, the events that referenced the person have personId none and
\* are otherwise as before, and all other events are as before.
C13_DeleteKeepsEvents ==
    [][ \A p \in PersonIds :
          (p \in dbPeople /\ p \notin dbPeople')
          => /\ Len(dbEvents') = Len(dbEvents)
             /\ \A i \in 1..Len(dbEvents) :
                  dbEvents'[i] =
                    IF dbEvents[i].personId = p
                    THEN [dbEvents[i] EXCEPT !.personId = None]
                    ELSE dbEvents[i] ]_vars

\* A Person with 3 TimelineEvents was deleted: the 3 events are present with
\* personId none.
C13_Witness ==
    /\ lastDelete.personId \in PersonIds
    /\ Cardinality(lastDelete.referencing) = 3
    /\ Len(dbEvents) = 3
    /\ \A i \in lastDelete.referencing : dbEvents[i].personId = None

\* C14: at most one Settings record is associated with any user.
C14_OneSettingsPerUser ==
    \A u \in UserIds : Cardinality(SettingsOf(dbSettings, u)) <= 1

\* Both users have their Settings, a caregiver exists, and a second insert
\* for a user who had Settings was attempted.
C14_Witness ==
    /\ \A u \in UserIds : Cardinality(SettingsOf(dbSettings, u)) = 1
    /\ dbCaregivers # {}
    /\ rejected

C16_FailedSaveChangesNothing ==
    [][ \A k \in Slots :
          /\ ( /\ plCalls[k] # Free /\ plCalls[k].outcome = Pending
               /\ ~Valid(plCalls[k].form)
               /\ plCalls'[k] # Free /\ plCalls'[k].outcome.kind = "body" )
             => /\ plCalls'[k].outcome = ErrorBody("VALIDATION_ERROR")
                /\ plServer' = plServer
          /\ ( /\ plCalls[k] # Free /\ plCalls'[k] = Free
               /\ ~(plCalls[k].outcome.kind = "body" /\ plCalls[k].outcome.success) )
             => people' = people ]_vars

\* An update that failed validation has returned after a person was added:
\* the list holds the two people as stored.
C16_Witness ==
    /\ plDone.op = "saveEdit"
    /\ plDone.outcome = ErrorBody("VALIDATION_ERROR")
    /\ Len(people) = 2
    /\ {people[i] : i \in DOMAIN people} = plServer

\* C22: editing and adding are never active at the same time, and at most
\* one person of the list is being edited.
C22_EditingOrAdding ==
    /\ ~(editingId # None /\ isAdding)
    /\ Cardinality({i \in DOMAIN people : people[i].id = editingId}) <= 1

\* The form for a new person is open while a saveEdit that was cancelled is
\* still waiting for its call, with two people in the list.
C22_Witness ==
    /\ isAdding
    /\ editingId = None
    /\ Len(people) = 2
    /\ \E k \in Slots : plCalls[k].op = "saveEdit"

\* C21: a person handleDelete has removed from the local list is not in the
\* list after a handleDelete or a handlePhotoUpload that was in flight at the
\* same time returns.
C21_DeletedStaysDeleted ==
    [][ \A k \in Slots :
          ( /\ plCalls[k].op \in {"handleDelete", "handlePhotoUpload"}
            /\ plCalls'[k] = Free )
          => \A id \in plDeleted :
                \A i \in DOMAIN people' : people'[i].id # id ]_vars

\* ------------------------------------------- properties of the HelpButton
\* C18: the dialog shows loading until the call of triggerHelp resolves:
\* while a call started by a click has not returned, isLoading is set.
C18_LoadingUntilResolved ==
    \A k \in Slots : helpCalls[k] # Free => helpIsLoading

\* ------------------------------------------- properties of the api client
\* What the caller gets from a successful envelope.
Payload(fn, data) ==
    CASE fn = "fetchPeople" -> data.people
      [] fn \in {"createPerson", "updatePerson"} -> data.person
      [] fn = "deletePerson" -> TRUE
      [] fn = "fetchTasks" -> data.tasks
      [] fn = "fetchSettings" -> data.settings
      [] fn = "fetchTimeline" -> data.events
      [] fn = "triggerHelp" -> [message |-> data.reassurance_message,
                                caregivers |-> data.caregivers]
      [] fn = "recognizeFace" -> data

\* C19: a function of the api client returns the payload of a response whose
\* success flag is true, its fallback value ([], null or false) for success =
\* false and for a thrown fetch or parse error, and no exception leaves it.
C19_PayloadOrFallback ==
    apiCall # Free =>
        /\ ~apiCall.returned.threw
        /\ apiCall.returned.value =
              IF apiCall.outcome.kind = "body" /\ apiCall.outcome.success
              THEN Payload(apiCall.op, apiCall.outcome.data)
              ELSE Fallback(apiCall.op)

\* deletePerson got an error response after a call whose fetch threw: it
\* returned false.
C19_Witness ==
    /\ apiCalls = 2
    /\ apiCall.op = "deletePerson"
    /\ apiCall.outcome = ErrorBody("NOT_FOUND")
    /\ apiCall.returned = [threw |-> FALSE, value |-> FALSE]

\* ------------------------------------ properties of the upload-photo endpoint
\* C20: a request whose photo shows no face removes the file it saved, leaves
\* photo_url and face_encoding of the person as they were, and is answered by
\* an error with success = false.
C20_NoFaceLeavesPerson ==
    [][ ( /\ uploads' = uploads + 1
          /\ lastUpload'.saved
          /\ generate_face_encoding(lastUpload'.photo) = None )
        => /\ \A f \in uploadFiles' : f.filepath # lastUpload'.filepath
           /\ \A f \in uploadFiles :
                 f.filepath # lastUpload'.filepath => f \in uploadFiles'
           /\ uploadPerson' = uploadPerson
           /\ lastUpload'.response =
                 Failed("No face detected in photo", 400) ]_vars

\* A photo without a face was uploaded for a person who has a photo, saved
\* at another time: the earlier file and the person's photo_url are there.
C20_Witness ==
    /\ lastUpload # Free
    /\ lastUpload.saved
    /\ ~lastUpload.response.success
    /\ uploadPerson.photo_url # NoPath
    /\ uploadPerson.photo_url # lastUpload.filepath
    /\ \E f \in uploadFiles : f.filepath = uploadPerson.photo_url

\* ---------------------------------- properties of the PhotoCaptureDialog
\* C23: when the dialog has been closed no camera stream acquired by the
\* dialog is running.
C23_ClosedStopsCamera ==
    ~dlgOpen => cameraRunning = {}

\* ------------------------------------ properties of the weekly CalendarView
\* C24: while the CalendarView is mounted, isLoading is true whenever a load
\* is in flight, and once no load is in flight the week displayed is the one
\* of the load that was started last.
C24_LastLoadDisplayed ==
    wkPhase = "mounted" =>
        /\ (\E k \in Slots : wkLoads[k] # Free) => wkLoading
        /\ (\A k \in Slots : wkLoads[k] = Free) => weekDays = wkStarted

\* C25: a load of the Timeline or of the CalendarView is started by the
\* interval only while the component is mounted.
C25_NoTimerLoadAfterUnmount ==
    [][ /\ \A k \in Slots :
              ( /\ wkLoads[k] = Free /\ wkLoads'[k] # Free
                /\ wkLoads'[k].by = "timer" ) => wkPhase = "mounted"
        /\ \A load \in tlLoads' \ tlLoads :
              load.by = "timer" => tlPhase = "mounted" ]_vars

C25_Witness ==
    /\ wkPhase = "unmounted" /\ tlPhase = "unmounted"
    /\ \E k \in Slots : wkLoads[k] # Free /\ wkLoads[k].by = "timer"
    /\ \E load \in tlLoads : load.by = "timer"
    /\ wkStarted < MaxWeekLoads

\* The time of day of an item, in minutes.
ItemMinutes(item) ==
    IF item.type = "task" THEN TimeOfDay(item.data.time)
    ELSE Minutes(item.data.timestamp)

\* C26: the items of a rendered day are the tasks and the events of the day,
\* each exactly once, in chronological order of time of day.
C26_AllItemsInTimeOrder ==
    dayPhase = "rendered" =>
        /\ Len(groupedItems) = Len(dayData.tasks) + Len(dayData.events)
        /\ \A i \in DOMAIN dayData.tasks :
              Cardinality({j \in DOMAIN groupedItems :
                  groupedItems[j] = taskItem(dayData.tasks[i])}) = 1
        /\ \A i \in DOMAIN dayData.events :
              Cardinality({j \in DOMAIN groupedItems :
                  groupedItems[j] = eventItem(dayData.events[i])}) = 1
        /\ \A i, j \in DOMAIN groupedItems :
              i < j => ItemMinutes(groupedItems[i]) <= ItemMinutes(groupedItems[j])

\* --------------------------------------- properties of parseTimeFromText
\* C27: the result of parseTimeFromText is null or a string "HH:MM" with
\* hours 00 to 23 and minutes 00 to 59.
C27_NullOrValidTime ==
    parsePhase = "parsed" =>
        \/ parsedTime = <<>>
        \/ /\ Len(parsedTime) = 5
           /\ parsedTime[3] = Colon
           /\ Number(SubSeq(parsedTime, 1, 2)) \in 0..23
           /\ Number(SubSeq(parsedTime, 4, 5)) \in 0..59

\* C28: parsing the text formatTime makes of a valid time "HH:MM" gives the
\* time back.
C28_FormatThenParse ==
    (parsePhase = "parsed" /\ timeShown # <<>>) => parsedTime = timeShown

C28_Witness ==
    /\ parsePhase = "parsed"
    /\ timeShown = timeString(0, 30)
    /\ phrase = <<Digit(1), Digit(2), Colon, Digit(3), Digit(0), Space,
                  LetterA, LetterM>>
    /\ parsedTime = timeShown

\* ------------------------------------- properties of parseAndCreateTasks
\* The parts createTask returned a task for.
SavedParts == {vpSent[i].part : i \in {j \in DOMAIN vpSent : vpSent[j].res # Null}}

\* The part is one that is created: it has a time, a title and a task.
IsCreated(i) ==
    /\ parseTimeFromText(vpRun.parts[i]) # <<>>
    /\ titleOf(vpRun.parts[i]) # <<>>
    /\ i \in SavedParts

\* The parts of the given kind, in their order.
RECURSIVE PartsWhere(_, _)
PartsWhere(n, created) ==
    IF n = 0 THEN <<>>
    ELSE IF IsCreated(n) = created THEN Append(PartsWhere(n - 1, created), n)
    ELSE PartsWhere(n - 1, created)

\* C29: when parseAndCreateTasks has ended, created holds the parts that
\* have a time, a title and a task from createTask, skipped holds all the
\* other parts, both in the order of the parts; createTask was called for
\* the parts in their order; the two counts of the status sum to the number
\* of parts; onDone was called once, and not before the end.
C29_EachPartOnce ==
    /\ vpRun.phase # "done" => onDoneCalls = 0
    /\ \A i, j \in DOMAIN vpSent : i < j => vpSent[i].part < vpSent[j].part
    /\ vpRun.phase = "done" =>
          LET made == PartsWhere(Len(vpRun.parts), TRUE)
              left == PartsWhere(Len(vpRun.parts), FALSE)
          IN  /\ vpRun.created =
                    [k \in 1..Len(made) |->
                        parseTimeFromText(vpRun.parts[made[k]]) \o <<Space>>
                           \o titleOf(vpRun.parts[made[k]])]
              /\ vpRun.skipped = [k \in 1..Len(left) |-> vpRun.parts[left[k]]]
              /\ vpStatus.saved + vpStatus.skipped = Len(vpRun.parts)
              /\ vpStatus.saved = Len(vpRun.created)
              /\ onDoneCalls = 1

C29_Witness ==
    /\ vpRun.phase = "done"
    /\ Len(vpRun.parts) = 2
    /\ Len(vpRun.created) = 1 /\ Len(vpRun.skipped) = 1
    /\ Len(vpSent) = 2
    /\ onDoneCalls = 1

Next == GateNext
Spec == Init /\ [][Next]_vars
====
